---- MODULE Spec2Model ----
(***************************************************************************)
(* State-machine model of the resume assistant's retrieval and tool core:  *)
(* the embedding cache (EmbeddingCache), the corpus loader                 *)
(* (GeminiEmbeddingRAG.load_cv / _generate_fresh_embeddings), the tool     *)
(* dispatcher (ToolDefinitions.execute_tool), the e-mail verification      *)
(* actions (ChatInterface) and the job compatibility report pipeline       *)
(* (JobCompatibilityAnalyzer).                                             *)
(*                                                                         *)
(* The specifications share the variables:                                 *)
(*   SpecCache   - cache directory + corpus loader + search pairing        *)
(*   SpecTools   - session state, tool dispatch, e-mail actions            *)
(*   SpecReport  - the analyzer pipeline of one compatibility analysis     *)
(*                 (SpecReportFair adds the fairness of its steps)         *)
(*   SpecHelpers - direct calls of the stateless helpers and of            *)
(*                 execute_tool                                            *)
(***************************************************************************)
EXTENDS Integers, Sequences, FiniteSets, TLC

VARIABLES
    \* ---- files on disk -------------------------------------------------
    cv_files,         \* [Paths -> Contents]: bytes of the resume file at each path
    chunks_file,      \* .cache/cv_chunks.pkl
    embeddings_file,  \* .cache/cv_embeddings.pkl
    info_file,        \* .cache/cache_info.json
    \* ---- GeminiEmbeddingRAG ---------------------------------------------
    json_path,        \* self.json_path
    embedding_model,  \* AppConstants.EMBEDDING_MODEL of the running build
    cv_data,          \* self.cv_data (0 = {})
    cv_chunks,        \* self.cv_chunks
    cv_embeddings,    \* self.cv_embeddings
    analyzer_cv,      \* tool_definitions.job_compatibility_analyzer (0 = None)
    search_result,    \* what the last search_similar_chunks returned
    last,             \* observation of the last cache/loader operation
    last_saved,       \* identity given to the last save_to_cache that returned True
    \* ---- st.session_state + mail transport ------------------------------
    pending_email,    \* st.session_state.pending_email
    email_action,     \* st.session_state.email_action
    editing_email,    \* st.session_state.editing_email
    messages,         \* st.session_state.messages (abstracted to message kinds)
    report_store,     \* last_compatibility_report / last_job_title / ...
    pdf_store,        \* pdf_data / pdf_filename
    auto_generate_pdf, \* st.session_state.auto_generate_pdf
    mail_log,         \* e-mails handed to EmailTool.send_email, in order
    staged,           \* number of prepare_email dispatches so far
    tool_obs,         \* observation of the last session operation
    \* ---- JobCompatibilityAnalyzer.generate_compatibility_report ---------
    stage,            \* position inside generate_compatibility_report
    job,              \* arguments and intermediate values of the running analysis
    attempt,          \* loop variable of _generate_report_with_retry
    gen_calls,        \* generate_content calls made by _generate_report_with_retry
    outcomes,         \* what each report attempt met
    result,           \* the dict generate_compatibility_report returned
    \* ---- direct calls of the stateless helpers ---------------------------
    probe             \* arguments and return value of the last direct call

cacheVars == <<cv_files, chunks_file, embeddings_file, info_file, json_path,
               embedding_model, cv_data, cv_chunks, cv_embeddings, analyzer_cv,
               search_result, last, last_saved>>
toolVars == <<pending_email, email_action, editing_email, messages, report_store,
              pdf_store, auto_generate_pdf, mail_log, staged, tool_obs>>
reportVars == <<stage, job, attempt, gen_calls, outcomes, result>>
vars == <<cacheVars, toolVars, reportVars, probe>>

\* ------------------------------------------------------------------ bounds
ChunkUnit == 3         \* chunks of the smaller resume document (the larger has twice as many)
MaxStaged == 2         \* prepare_email dispatches followed in one session
MaxMessages == 4       \* transcript length followed in one session
MaxAnalyses == 2       \* analyses followed by SpecReport
PoolSize == 12         \* distinct chunk texts the searches can return

Paths == {"selman-cv.json", "other-cv.json"}
\* AppConstants.EMBEDDING_MODEL is a constant of the build.
Models == {"models/text-embedding-004"}

\* ------------------------------------------------------- program constants
batch_size == 5
MAX_RETRIES == 3
MIN_REPORT_LENGTH == 500
MIN_SECTIONS == 4

FALLBACK_LITERAL_EN == 1287
FALLBACK_LITERAL_TR == 1201

\* AnalysisConstants.REPORT_TEMPERATURE (0.3), in tenths.
REPORT_TEMPERATURE_TENTHS == 3
MAX_CHUNKS_PER_SEARCH == 4
MAX_TOTAL_CHUNKS == 10
GENERAL_SEARCH_CHUNKS == 3
\* top_k and the cap of the education sweep (literals in the source).
EDUCATION_SWEEP_TOP_K == 3
EDUCATION_SWEEP_CAP == 4

\* ======================================================================
\*  Part 1 - embedding cache and corpus loader (src/app.py)
\* ======================================================================

\* The byte contents a resume file can have: two different documents.
Docs == {1, 2}
Contents == Docs

\* Number of chunks json_to_chunks produces for document d: the second
\* document has twice the entries of the first, so that one needs a single
\* embedding batch and the other two.
NumChunks(d) == ChunkUnit * d

\* A chunk text is identified by its document and its position in it.
json_to_chunks(d) == [i \in 1..NumChunks(d) |-> <<d, i>>]

\* The embedding capability: a vector determined by the text embedded.
embed_content(text) == [vec_of |-> text]

Batches(n) == (n + batch_size - 1) \div batch_size

\* hashlib.md5 of the file's bytes ("" only for a missing file; the resume
\* file is present throughout).
EmptyHash == <<>>
get_file_hash(file_path) == <<"md5", cv_files[file_path]>>

AbsentFile == [state |-> "absent", data |-> <<>>]
CorruptFile == [state |-> "corrupt", data |-> <<>>]
PickleFile(d) == [state |-> "ok", data |-> d]

AbsentInfo == [state |-> "absent", cv_file_path |-> "", cv_file_hash |-> EmptyHash,
               chunks_count |-> 0, embedding_model |-> ""]
CorruptInfo == [AbsentInfo EXCEPT !.state = "corrupt"]

EmptyDisk == [chunks |-> AbsentFile, embeddings |-> AbsentFile, info |-> AbsentInfo]
CurDisk == [chunks |-> chunks_file, embeddings |-> embeddings_file, info |-> info_file]

\* _get_cache_info: the parsed JSON, {} when the file is absent or unreadable.
get_cache_info(disk) ==
    IF disk.info.state = "ok" THEN [empty |-> FALSE, info |-> disk.info]
    ELSE [empty |-> TRUE, info |-> AbsentInfo]

is_cache_valid(disk, cv_file_path, model) ==
    /\ disk.embeddings.state # "absent"
    /\ disk.chunks.state # "absent"
    /\ disk.info.state # "absent"
    /\ ~get_cache_info(disk).empty
    /\ get_cache_info(disk).info.cv_file_path = cv_file_path
    /\ get_cache_info(disk).info.cv_file_hash = get_file_hash(cv_file_path)
    /\ get_cache_info(disk).info.embedding_model = model

NoneNone == [ok |-> FALSE, chunks |-> <<>>, embeddings |-> <<>>]

\* load_from_cache without the comparison of the two lengths.
load_from_cache_unchecked(disk) ==
    IF disk.chunks.state # "ok" \/ disk.embeddings.state # "ok"
    THEN NoneNone
    ELSE [ok |-> TRUE, chunks |-> disk.chunks.data, embeddings |-> disk.embeddings.data]

\* pickle.load of both files; an exception (missing or truncated file) and a
\* length mismatch both give (None, None).
load_from_cache(disk) ==
    IF disk.chunks.state # "ok" \/ disk.embeddings.state # "ok"
    THEN NoneNone
    ELSE IF Len(disk.chunks.data) # Len(disk.embeddings.data)
    THEN NoneNone
    ELSE [ok |-> TRUE, chunks |-> disk.chunks.data, embeddings |-> disk.embeddings.data]

\* Where a write of save_to_cache can fail: at open (the file is left as it
\* was) or during the dump (the file is left truncated).
SaveFaults == {"none", "chunks_dump", "embeddings_open", "info_open", "info_dump"}

\* _save_cache_info writing nothing: the identity record stays as it was.
save_cache_info_skipped(old, cv_file_path, cv_hash, chunks_count, model, fault) == old

\* _save_cache_info: the exception of a failed write is caught here.
save_cache_info(old, cv_file_path, cv_hash, chunks_count, model, fault) ==
    CASE fault = "info_open" -> old
      [] fault = "info_dump" -> CorruptInfo
      [] OTHER -> [state |-> "ok", cv_file_path |-> cv_file_path,
                   cv_file_hash |-> cv_hash, chunks_count |-> chunks_count,
                   embedding_model |-> model]

\* save_to_cache: the three writes in order; returns the new disk and the
\* boolean the caller sees.
save_to_cache(disk, cv_file_path, chunks, embeddings, model, fault) ==
    CASE fault = "chunks_dump" ->
            [disk |-> [disk EXCEPT !.chunks = CorruptFile], ret |-> FALSE]
      [] fault = "embeddings_open" ->
            [disk |-> [disk EXCEPT !.chunks = PickleFile(chunks)], ret |-> FALSE]
      [] OTHER ->
            [disk |-> [chunks |-> PickleFile(chunks),
                       embeddings |-> PickleFile(embeddings),
                       info |-> save_cache_info(disk.info, cv_file_path,
                                    get_file_hash(cv_file_path), Len(chunks), model, fault)],
             ret |-> TRUE]

CacheFiles == {"embeddings", "chunks", "info"}

\* A clear_cache whose loop ends at the first removal that fails.
clear_cache_stop_at_failure(disk, remove_failed) ==
    LET fails(f) == f \in remove_failed /\ disk[f].state # "absent"
    IN  [embeddings |-> IF fails("embeddings") THEN disk.embeddings ELSE AbsentFile,
         chunks |-> IF fails("embeddings") \/ fails("chunks")
                    THEN disk.chunks ELSE AbsentFile,
         info |-> IF fails("embeddings") \/ fails("chunks") \/ fails("info")
                  THEN disk.info ELSE AbsentInfo]

\* clear_cache: os.remove per file, a failed removal leaves that file.
clear_cache(disk, remove_failed) ==
    [chunks |-> IF "chunks" \in remove_failed THEN disk.chunks ELSE AbsentFile,
     embeddings |-> IF "embeddings" \in remove_failed THEN disk.embeddings ELSE AbsentFile,
     info |-> IF "info" \in remove_failed THEN disk.info ELSE AbsentInfo]


\* ---- GeminiEmbeddingRAG: in-memory corpus ------------------------------
NoEmbeddings == [none |-> TRUE, rows |-> <<>>]     \* self.cv_embeddings = None
EmptyArray == [none |-> FALSE, rows |-> <<>>]      \* np.array([])
Matrix(rows) == [none |-> FALSE, rows |-> rows]

BlankMem == [cv_data |-> 0, cv_chunks |-> <<>>, cv_embeddings |-> NoEmbeddings,
             analyzer_cv |-> 0]
CurMem == [cv_data |-> cv_data, cv_chunks |-> cv_chunks,
           cv_embeddings |-> cv_embeddings, analyzer_cv |-> analyzer_cv]

\* get_embeddings(texts): one embed call per text; an exception on any text
\* makes the whole call return np.array([]).
get_embeddings(texts, fails) ==
    IF fails \/ Len(texts) = 0 THEN <<>>
    ELSE [k \in 1..Len(texts) |-> embed_content(texts[k])]

\* The batch loop of _generate_fresh_embeddings: the rows of every batch whose
\* get_embeddings call returned a non-empty array, stacked in batch order.
RECURSIVE stack_batches(_, _, _)
stack_batches(chunks, b, failed) ==
    IF b > Batches(Len(chunks)) THEN <<>>
    ELSE LET lo == (b - 1) * batch_size + 1
             hi == IF b * batch_size < Len(chunks) THEN b * batch_size ELSE Len(chunks)
             batch == get_embeddings(SubSeq(chunks, lo, hi), b \in failed)
         IN  batch \o stack_batches(chunks, b + 1, failed)

NoObs == [op |-> "init", valid |-> FALSE, cache_hit |-> FALSE, regenerated |-> FALSE,
          batch_calls |-> 0, batch_failed |-> FALSE, embed_rows |-> 0,
          save_ret |-> "na", save_fault |-> "none", save_changed |-> FALSE,
          remove_failed |-> {}]

\* _generate_fresh_embeddings(language): returns the new memory, the new disk
\* and what happened.
generate_fresh_embeddings(mem, disk, path, model, failed, fault) ==
    LET chunks == json_to_chunks(mem.cv_data)
        nb == Batches(Len(chunks))
        embeddings == stack_batches(chunks, 1, failed)
        saved == save_to_cache(disk, path, chunks, embeddings, model, fault)
    IN  IF Len(embeddings) > 0
        THEN [mem |-> [mem EXCEPT !.cv_chunks = chunks,
                                  !.cv_embeddings = Matrix(embeddings)],
              disk |-> saved.disk,
              obs |-> [regenerated |-> TRUE, batch_calls |-> nb,
                       batch_failed |-> (failed \cap (1..nb)) # {},
                       embed_rows |-> Len(embeddings),
                       save_ret |-> IF saved.ret THEN "true" ELSE "false",
                       save_fault |-> fault, save_changed |-> saved.disk # disk]]
        ELSE [mem |-> [mem EXCEPT !.cv_chunks = chunks, !.cv_embeddings = EmptyArray],
              disk |-> disk,
              obs |-> [regenerated |-> TRUE, batch_calls |-> nb,
                       batch_failed |-> (failed \cap (1..nb)) # {},
                       embed_rows |-> 0, save_ret |-> "na", save_fault |-> "none",
                       save_changed |-> FALSE]]

\* The tail of load_cv: the job analyzer is (re)initialised with the loaded
\* document when a non-empty embedding matrix is held.
init_analyzer(mem) ==
    IF ~mem.cv_embeddings.none /\ Len(mem.cv_embeddings.rows) > 0
    THEN [mem EXCEPT !.analyzer_cv = mem.cv_data]
    ELSE mem

\* load_cv(): returns the new memory, the new disk and the observation.
load_cv(mem, disk, path, model, failed, fault, opname) ==
    LET base == [NoObs EXCEPT !.op = opname]
        m1 == [mem EXCEPT !.cv_data = cv_files[path]]
        valid == is_cache_valid(disk, path, model)
        cached == load_from_cache(disk)
    IN    IF valid /\ cached.ok
          THEN [mem |-> init_analyzer([m1 EXCEPT !.cv_chunks = cached.chunks,
                                        !.cv_embeddings = Matrix(cached.embeddings)]),
                disk |-> disk,
                obs |-> [base EXCEPT !.valid = TRUE, !.cache_hit = TRUE]]
          ELSE LET g == generate_fresh_embeddings(m1, disk, path, model, failed, fault)
               IN  [mem |-> init_analyzer(g.mem),
                    disk |-> g.disk,
                    obs |-> [base EXCEPT !.valid = valid,
                                         !.regenerated = TRUE,
                                         !.batch_calls = g.obs.batch_calls,
                                         !.batch_failed = g.obs.batch_failed,
                                         !.embed_rows = g.obs.embed_rows,
                                         !.save_ret = g.obs.save_ret,
                                         !.save_fault = g.obs.save_fault,
                                         !.save_changed = g.obs.save_changed]]


\* search_similar_chunks, as far as the pairing of vectors and texts goes:
\* row i of the matrix is scored and returned with the text cv_chunks[i].
\* Without embeddings the single synthetic entry (index -1) is returned.
Unavailable == <<[text |-> <<0, 0>>, vec |-> embed_content(<<0, 0>>), index |-> -1]>>
search_pairs(mem) ==
    IF mem.cv_embeddings.none \/ Len(mem.cv_embeddings.rows) = 0
    THEN Unavailable
    ELSE [i \in 1..Len(mem.cv_embeddings.rows) |->
            [text |-> mem.cv_chunks[i], vec |-> mem.cv_embeddings.rows[i], index |-> i - 1]]

\* ---- state of the three parts at start ---------------------------------
InitCache ==
    /\ cv_files = [p \in Paths |-> 1]
    /\ chunks_file = AbsentFile
    /\ embeddings_file = AbsentFile
    /\ info_file = AbsentInfo
    /\ json_path = ""
    /\ embedding_model = "models/text-embedding-004"
    /\ cv_data = 0
    /\ cv_chunks = <<>>
    /\ cv_embeddings = NoEmbeddings
    /\ analyzer_cv = 0
    /\ search_result = <<>>
    /\ last = NoObs
    /\ last_saved = <<>>

SetCache(r, p, m) ==
    /\ chunks_file' = r.disk.chunks
    /\ embeddings_file' = r.disk.embeddings
    /\ info_file' = r.disk.info
    /\ cv_data' = r.mem.cv_data
    /\ cv_chunks' = r.mem.cv_chunks
    /\ cv_embeddings' = r.mem.cv_embeddings
    /\ analyzer_cv' = r.mem.analyzer_cv
    /\ json_path' = p
    /\ embedding_model' = m
    /\ last' = r.obs
    /\ last_saved' = IF r.obs.save_ret = "true"
                     THEN <<p, get_file_hash(p), m>>
                     ELSE IF r.obs.op = "new_session" THEN last_saved
                     ELSE <<>>
    /\ search_result' = <<>>

\* main(): a new session constructs GeminiEmbeddingRAG, whose __init__ runs
\* load_cv on blank memory. The build may name another resume path or
\* another embedding model than the one that wrote the cache.
NewSession(p, m, failed, fault) ==
    /\ \E r \in {load_cv(BlankMem, CurDisk, p, m, failed, fault, "new_session")} :
            SetCache(r, p, m)
    /\ UNCHANGED <<cv_files, toolVars, reportVars, probe>>

\* Sidebar "Refresh": clear_cache() then load_cv(). The button is rendered
\* only while the identity record is readable.
Refresh(remove_failed, failed, fault) ==
    /\ json_path # ""
    /\ ~get_cache_info(CurDisk).empty
    /\ \E r \in {load_cv(CurMem, clear_cache(CurDisk, remove_failed), json_path,
                          embedding_model, failed, fault, "refresh")} :
            SetCache(r, json_path, embedding_model)
    /\ UNCHANGED <<cv_files, toolVars, reportVars, probe>>

\* Sidebar "Clear": clear_cache() alone; memory is left as it is.
ClearCache(remove_failed) ==
    /\ json_path # ""
    /\ ~get_cache_info(CurDisk).empty
    /\ SetCache([mem |-> CurMem, disk |-> clear_cache(CurDisk, remove_failed),
                 obs |-> [NoObs EXCEPT !.op = "clear",
                                       !.remove_failed =
                                           {f \in remove_failed : CurDisk[f].state # "absent"}]],
             json_path, embedding_model)
    /\ UNCHANGED <<cv_files, toolVars, reportVars, probe>>

\* The environment rewrites (or removes) the resume file at a path.
ChangeCv(p, c) ==
    /\ cv_files[p] # c
    /\ cv_files' = [cv_files EXCEPT ![p] = c]
    /\ last' = [NoObs EXCEPT !.op = "change_cv"]
    /\ search_result' = <<>>
    /\ UNCHANGED <<chunks_file, embeddings_file, info_file, json_path, embedding_model,
                   cv_data, cv_chunks, cv_embeddings, analyzer_cv, last_saved,
                   toolVars, reportVars, probe>>

\* A query is answered from the corpus held in memory.
Search ==
    /\ json_path # ""
    /\ search_result' = search_pairs(CurMem)
    /\ last' = [NoObs EXCEPT !.op = "search"]
    /\ UNCHANGED <<cv_files, chunks_file, embeddings_file, info_file, json_path,
                   embedding_model, cv_data, cv_chunks, cv_embeddings, analyzer_cv,
                   last_saved, toolVars, reportVars, probe>>

\* ======================================================================
\*  Part 2 - session state, tool dispatch and e-mail actions
\*  (src/tools/tool_definitions.py, src/app.py)
\* ======================================================================

NoEmail == [present |-> FALSE, id |-> 0, keys |-> {}]
NoReport == [present |-> FALSE, partial |-> FALSE, language |-> ""]
NoPdf == [present |-> FALSE]
NoToolObs == [op |-> "init", tool |-> "", keys |-> {}, success |-> FALSE,
              message |-> "", changed |-> FALSE, raised |-> FALSE, response |-> "",
              gen_calls |-> 0, retries |-> 0, dispatches |-> 0,
              jd_empty |-> FALSE, lang |-> "", pipeline |-> "",
              renders |-> 0, pdf_keyword |-> FALSE, armed |-> FALSE,
              executed |-> 0, failures |-> 0, transients |-> 0,
              parts |-> 0, searches |-> 0]

\* ---- tool schemas and tool calls (tool_definitions.py)
\* The "required" lists of the prepare_email and analyze_job_compatibility
\* declarations.
EmailKeys == {"sender_name", "sender_email", "message"}
AnalyzeKeys == {"job_description", "report_language", "company_name"}

\* A function call of the model: the tool name and the argument dict, the
\* dict abstracted to the keys it holds, whether job_description is the
\* empty string, and the value of report_language.
NoArgs == [keys |-> {}, jd_empty |-> FALSE, lang |-> ""]
EmailCalls == {[name |-> "prepare_email", args |-> [NoArgs EXCEPT !.keys = k]] :
                 k \in SUBSET EmailKeys}
AnalyzeCalls ==
    {[name |-> "analyze_job_compatibility",
      args |-> [keys |-> k, jd_empty |-> e, lang |-> l]] :
        k \in SUBSET AnalyzeKeys, e \in BOOLEAN, l \in {"", "tr", "de"}}
ValidAnalyzeCall(c) ==
    /\ c.args.jd_empty => "job_description" \in c.args.keys
    /\ (c.args.lang # "") <=> ("report_language" \in c.args.keys)
OtherCalls == {[name |-> n, args |-> NoArgs] :
                 n \in {"get_recent_posts", "generate_compatibility_pdf", "no_such_tool"}}
ToolCalls == EmailCalls \cup {c \in AnalyzeCalls : ValidAnalyzeCall(c)} \cup OtherCalls

\* What the collaborators of one turn do: the post aggregator and the PDF
\* renderer may raise, the analyzer returns a report dict or an error dict.
Envs == [posts : {"ok", "raise"}, pdf : {"ok", "raise"}, report : {"ok", "error"}]

\* The collaborators a turn with the model answers outs can reach: one that
\* no tool call of the turn uses is left at "ok".
EnvsOf(outs) ==
    LET names == {outs[i].call.name : i \in DOMAIN outs}
    IN  {env \in Envs :
            /\ "get_recent_posts" \notin names => env.posts = "ok"
            /\ "analyze_job_compatibility" \notin names => env.report = "ok"
            /\ names \cap {"generate_compatibility_pdf", "analyze_job_compatibility"} = {}
                  => env.pdf = "ok"}

\* The part of st.session_state (plus the mail transport's log) a turn works on.
CurSession == [pending_email |-> pending_email, report_store |-> report_store,
               pdf_store |-> pdf_store, auto_generate_pdf |-> auto_generate_pdf,
               mail_log |-> mail_log, staged |-> staged, renders |-> 0,
               executed |-> 0, failures |-> 0, transients |-> 0, searches |-> 0]

\* The dict a branch of execute_tool returns and the session state it leaves;
\* raised tells that the branch let an exception escape instead.
Failure(S, msg) == [S |-> S, success |-> FALSE, message |-> msg, raised |-> FALSE]
Success(S, msg) == [S |-> S, success |-> TRUE, message |-> msg, raised |-> FALSE]

\* Positional arguments execute_tool passes to generate_compatibility_report
\* against the parameters the method declares after self.
ReportCallArgs == <<"job_description", "report_language", "company_name">>
ReportParams == <<"job_description", "language">>
\* Keys of the dict generate_compatibility_report returns on success.
ReportDataKeys == {"report_text", "job_title", "compatibility_score", "metadata"}

\* prepare_email branch, with a direct delivery instead of staging.
prepare_email_sending(S, tool_args) ==
    Success([S EXCEPT !.mail_log = Append(S.mail_log, S.staged + 1),
                      !.staged = S.staged + 1], "Email prepared for review")

\* prepare_email branch of execute_tool.
prepare_email(S, tool_args) ==
    Success([S EXCEPT !.pending_email = [present |-> TRUE, id |-> S.staged + 1,
                                         keys |-> tool_args.keys \cup {"subject"}],
                      !.staged = S.staged + 1], "Email prepared for review")

\* get_recent_posts branch without its try/except: the aggregator's exception
\* leaves execute_tool.
get_recent_posts_uncaught(S, tool_args, env) ==
    IF env.posts = "raise"
    THEN [S |-> S, success |-> FALSE, message |-> "", raised |-> TRUE]
    ELSE Success(S, "Posts retrieved successfully")

\* get_recent_posts branch of execute_tool.
get_recent_posts(S, tool_args, env) ==
    IF env.posts = "raise" THEN Failure(S, "Error retrieving posts")
    ELSE Success(S, "Posts retrieved successfully")

\* generate_compatibility_pdf branch of execute_tool.
\* S.renders counts the calls of pdf_generator.generate_pdf made in the turn.
generate_compatibility_pdf_unguarded(S, env) ==
    LET R == [S EXCEPT !.renders = @ + 1]
    IN  IF env.pdf = "raise" THEN Failure(R, "Error generating PDF")
        ELSE Success([R EXCEPT !.pdf_store = [present |-> TRUE]],
                     "PDF report generated successfully")

generate_compatibility_pdf(S, env) ==
    LET R == [S EXCEPT !.renders = @ + 1]
    IN  IF ~S.report_store.present
        THEN Failure(S, "Please run a new analysis first.")
        ELSE IF env.pdf = "raise" THEN Failure(R, "Error generating PDF")
        ELSE Success([R EXCEPT !.pdf_store = [present |-> TRUE]],
                     "PDF report generated successfully")

\* analyze_job_compatibility branch of execute_tool.
analyze_job_compatibility(S, tool_args, env, analyzer) ==
    LET report_language == IF tool_args.lang \in {"en", "tr"} THEN tool_args.lang ELSE "en"
    IN  IF analyzer = 0 THEN Failure(S, "Job compatibility analyzer not initialized")
        ELSE IF "job_description" \notin tool_args.keys \/ tool_args.jd_empty
        THEN Failure(S, "Job description is required")
        ELSE IF Len(ReportCallArgs) > Len(ReportParams)      \* TypeError at the call
        THEN Failure(S, "Error analyzing job compatibility")
        ELSE IF env.report = "error" THEN Failure(S, "analysis error")
        ELSE IF "company_name" \notin ReportDataKeys         \* KeyError after two stores
        THEN Failure([S EXCEPT !.report_store = [present |-> TRUE, partial |-> TRUE,
                                                 language |-> S.report_store.language]],
                     "Error analyzing job compatibility")
        ELSE Success([S EXCEPT !.report_store = [present |-> TRUE, partial |-> FALSE,
                                                 language |-> report_language]],
                     "Job compatibility analysis completed")

\* ToolDefinitions.execute_tool
execute_tool(S, tool_name, tool_args, env, analyzer) ==
    CASE tool_name = "prepare_email" -> prepare_email(S, tool_args)
      [] tool_name = "get_recent_posts" -> get_recent_posts(S, tool_args, env)
      [] tool_name = "generate_compatibility_pdf" -> generate_compatibility_pdf(S, env)
      [] tool_name = "analyze_job_compatibility" ->
            analyze_job_compatibility(S, tool_args, env, analyzer)
      [] OTHER -> Failure(S, "Unknown tool")

\* ---- GeminiEmbeddingRAG._handle_function_call / generate_response (app.py)
max_retries == 2

\* result["data"]["formatted_response"] of get_recent_posts: the text the
\* post aggregator formats in the conversation language, a non-empty string.
format_posts_for_chat == "posts"

\* _handle_function_call for a part that carries a function call: the new
\* session state, the string returned and the number of tools executed.
\* S.executed counts the execute_tool calls of the turn, S.failures those
\* that handed a failure result back for the model's own call.
handle_function_call(S, call, env, analyzer) ==
    LET r == execute_tool([S EXCEPT !.executed = @ + 1],
                          call.name, call.args, env, analyzer)
        pdf == execute_tool([r.S EXCEPT !.auto_generate_pdf = FALSE,
                                        !.executed = @ + 1],
                            "generate_compatibility_pdf", NoArgs, env, analyzer)
    IN  IF ~r.success
        THEN [S |-> [r.S EXCEPT !.failures = @ + 1], ret |-> "tool_failed",
              dispatches |-> 1, first |-> r]
        ELSE CASE call.name = "analyze_job_compatibility" ->
                    IF r.S.auto_generate_pdf
                    THEN [S |-> pdf.S,
                          ret |-> IF pdf.success THEN "PDF_GENERATED" ELSE "report",
                          dispatches |-> 2, first |-> r]
                    ELSE [S |-> r.S, ret |-> "report", dispatches |-> 1, first |-> r]
               [] call.name = "generate_compatibility_pdf" ->
                    [S |-> r.S, ret |-> "PDF_GENERATED", dispatches |-> 1, first |-> r]
               [] call.name = "prepare_email" ->
                    [S |-> r.S, ret |-> "EMAIL_PREPARED_FOR_REVIEW", dispatches |-> 1,
                     first |-> r]
               [] OTHER ->
                    [S |-> r.S, ret |-> format_posts_for_chat, dispatches |-> 1,
                     first |-> r]

\* The loop over the parts without its return: every function-call part of
\* the response is dispatched.
RECURSIVE handle_parts_all(_, _, _, _)
handle_parts_all(S, parts, env, analyzer) ==
    LET h == handle_function_call(S, Head(parts), env, analyzer)
        t == handle_parts_all(h.S, Tail(parts), env, analyzer)
    IN  IF Len(parts) = 1 THEN h
        ELSE [t EXCEPT !.dispatches = @ + h.dispatches, !.first = h.first,
                       !.ret = h.ret]

\* generate_response: "for part in response.candidates[0].content.parts",
\* for the function-call parts of a response. The first part whose
\* _handle_function_call returns a non-empty string ends the loop and the
\* turn; after an empty string the next part is handled.
RECURSIVE handle_parts(_, _, _, _)
handle_parts(S, parts, env, analyzer) ==
    LET h == handle_function_call(S, Head(parts), env, analyzer)
        t == handle_parts(h.S, Tail(parts), env, analyzer)
    IN  IF h.ret # "" \/ Len(parts) = 1 THEN h
        ELSE [t EXCEPT !.dispatches = @ + h.dispatches, !.first = h.first]

\* What one generate_content call of generate_response meets: an exception
\* (or a None response), a response without text and parts, a text answer,
\* or a response whose parts are function calls: call is the first of them,
\* more the ones after it. The responses with two function calls start with
\* a call without arguments or a complete prepare_email and go on with a
\* complete prepare_email.
NoCall == [name |-> "", args |-> NoArgs]
Outcomes ==
    LET complete_email == [name |-> "prepare_email",
                           args |-> [NoArgs EXCEPT !.keys = EmailKeys]]
    IN  [kind : {"raise", "empty", "text"}, call : {NoCall}, more : {<<>>}]
           \cup [kind : {"call"}, call : ToolCalls, more : {<<>>}]
           \cup [kind : {"call"}, call : OtherCalls \cup {complete_email},
                 more : {<<complete_email>>}]
Retried(o) == o.kind \in {"raise", "empty"}

NoDispatch == [S |-> CurSession, success |-> FALSE, message |-> "", raised |-> FALSE]

\* The retry loop of generate_response from attempt a on (0-based), outs[a+1]
\* being what that attempt meets. S.transients counts the calls that raised
\* or came back empty; retries counts the retry notices shown.
RECURSIVE generate_attempts_retrying(_, _, _, _, _)
generate_attempts_retrying(S, outs, a, env, analyzer) ==
    LET o == outs[a + 1]
        h == handle_parts(S, <<o.call>> \o o.more, env, analyzer)
        T == [(IF o.kind = "call" THEN h.S ELSE S) EXCEPT !.transients = @ + 1]
        base == [S |-> S, response |-> "", gen_calls |-> a + 1, retries |-> a,
                 dispatches |-> 0, tool |-> "", args |-> NoArgs, first |-> NoDispatch,
                 parts |-> Len(o.more) + (IF o.kind = "call" THEN 1 ELSE 0)]
    IN  CASE o.kind = "call" /\ (h.first.success \/ a >= max_retries - 1) ->
                [base EXCEPT !.S = h.S, !.response = h.ret, !.dispatches = h.dispatches,
                             !.tool = o.call.name, !.args = o.call.args,
                             !.first = h.first]
          [] o.kind = "call" -> generate_attempts_retrying(h.S, outs, a + 1, env, analyzer)
          [] o.kind = "text" -> [base EXCEPT !.response = "text"]
          [] OTHER ->
                IF a < max_retries - 1
                THEN generate_attempts_retrying(T, outs, a + 1, env, analyzer)
                ELSE [base EXCEPT !.S = T, !.response =
                        IF o.kind = "raise" THEN "error_generating_response"
                        ELSE "no_response_generated"]

RECURSIVE generate_attempts(_, _, _, _, _)
generate_attempts(S, outs, a, env, analyzer) ==
    LET o == outs[a + 1]
        h == handle_parts(S, <<o.call>> \o o.more, env, analyzer)
        T == [(IF o.kind = "call" THEN h.S ELSE S) EXCEPT !.transients = @ + 1]
        base == [S |-> S, response |-> "", gen_calls |-> a + 1, retries |-> a,
                 dispatches |-> 0, tool |-> "", args |-> NoArgs, first |-> NoDispatch,
                 parts |-> Len(o.more) + (IF o.kind = "call" THEN 1 ELSE 0)]
    IN  CASE o.kind = "call" /\ h.ret # "" ->
                [base EXCEPT !.S = h.S, !.response = h.ret, !.dispatches = h.dispatches,
                             !.tool = o.call.name, !.args = o.call.args,
                             !.first = h.first]
          [] o.kind = "text" -> [base EXCEPT !.response = "text"]
          [] OTHER ->
                IF a < max_retries - 1
                THEN generate_attempts(T, outs, a + 1, env, analyzer)
                ELSE [base EXCEPT !.S = T, !.response =
                        IF o.kind = "raise" THEN "error_generating_response"
                        ELSE "no_response_generated"]

\* generate_response(query, history): a query naming a PDF keyword raises the
\* auto_generate_pdf flag before the model is asked.
generate_response(S, pdf_keyword, outs, env, analyzer) ==
    generate_attempts([S EXCEPT !.auto_generate_pdf = @ \/ pdf_keyword,
                                !.searches = @ + 1],
                      outs, 0, env, analyzer)

\* The response stored as it came back, sentinels included.
assistant_message_raw(response) == response

\* process_user_input: the transcript entry appended for a response. The two
\* sentinels are replaced by ui_text["email_prepared"] and
\* system_text["pdf_generated"]; any other response is stored as it is.
assistant_message(response) ==
    CASE response = "EMAIL_PREPARED_FOR_REVIEW" -> "email_prepared"
      [] response = "PDF_GENERATED" -> "pdf_generated"
      [] OTHER -> "answer"

\* ---- actions of a session ----------------------------------------------

\* main() -> process_user_input(prompt): one chat turn. handle_email_actions
\* runs first in main(), so a turn is processed only without a pending action.
UserTurn(pdf_keyword, outs, env) ==
    /\ email_action = ""
    /\ Len(messages) < MaxMessages
    /\ \E g \in {generate_response(CurSession, pdf_keyword, outs, env, analyzer_cv)} :
           /\ g.S.staged <= MaxStaged
           /\ pending_email' = g.S.pending_email
           /\ report_store' = g.S.report_store
           /\ pdf_store' = g.S.pdf_store
           /\ auto_generate_pdf' = g.S.auto_generate_pdf
           /\ mail_log' = g.S.mail_log
           /\ staged' = g.S.staged
           /\ messages' = messages \o <<"user", assistant_message(g.response)>>
           /\ tool_obs' = [NoToolObs EXCEPT
                  !.op = "turn", !.tool = g.tool,
                  !.keys = g.args.keys,
                  !.success = g.first.success, !.message = g.first.message,
                  !.changed = (g.first.S.pending_email # pending_email
                                 \/ g.first.S.report_store # report_store),
                  !.response = g.response, !.gen_calls = g.gen_calls,
                  !.retries = g.retries, !.dispatches = g.dispatches,
                  !.jd_empty = g.args.jd_empty, !.lang = g.args.lang,
                  !.pipeline = IF g.tool = "analyze_job_compatibility"
                               THEN env.report ELSE "",
                  !.renders = g.S.renders, !.pdf_keyword = pdf_keyword,
                  !.executed = g.S.executed, !.failures = g.S.failures,
                  !.transients = g.S.transients,
                  !.parts = g.parts, !.searches = g.S.searches,
                  !.armed = (g.dispatches > 0
                               /\ (auto_generate_pdf \/ pdf_keyword))]
    /\ UNCHANGED <<email_action, editing_email, cacheVars, reportVars, probe>>

\* A button of the e-mail card sets email_action. display_messages renders
\* the card only under the last transcript entry, when that entry is the
\* "email prepared" notice and a pending e-mail is held.
ClickEmailButton(action) ==
    /\ email_action = ""
    /\ pending_email.present
    /\ Len(messages) > 0
    /\ messages[Len(messages)] = "email_prepared"
    /\ email_action' = action
    /\ tool_obs' = [NoToolObs EXCEPT !.op = "click"]
    /\ UNCHANGED <<pending_email, editing_email, messages, report_store, pdf_store,
                   auto_generate_pdf, mail_log, staged, cacheVars, reportVars, probe>>

\* EmailTool.send_email: the message is handed to the transport, which
\* reports success or failure.
send_email(log, email, outcome) ==
    [log |-> Append(log, email.id), success |-> outcome = "ok"]

\* handle_email_actions -> _send_email. Reading a key the staged dict lacks
\* raises KeyError before the transport is called and before anything is
\* deleted; the script run ends there with session state as it was.
SendEmail(outcome) ==
    /\ email_action = "send"
    /\ IF EmailKeys \cup {"subject"} \subseteq pending_email.keys
       THEN LET sent == send_email(mail_log, pending_email, outcome)
            IN  /\ mail_log' = sent.log
                /\ pending_email' = NoEmail
                /\ email_action' = ""
                /\ messages' = Append(messages,
                                      IF sent.success THEN "email_sent" ELSE "email_failed")
                /\ tool_obs' = [NoToolObs EXCEPT !.op = "send_email",
                                                 !.success = sent.success]
       ELSE /\ tool_obs' = [NoToolObs EXCEPT !.op = "send_email", !.raised = TRUE]
            /\ UNCHANGED <<mail_log, pending_email, email_action, messages>>
    /\ UNCHANGED <<editing_email, report_store, pdf_store, auto_generate_pdf, staged,
                   cacheVars, reportVars, probe>>

\* handle_email_actions -> _cancel_email
CancelEmail ==
    /\ email_action = "cancel"
    /\ pending_email' = NoEmail
    /\ email_action' = ""
    /\ messages' = Append(messages, "email_cancelled")
    /\ tool_obs' = [NoToolObs EXCEPT !.op = "cancel_email"]
    /\ UNCHANGED <<editing_email, report_store, pdf_store, auto_generate_pdf, mail_log,
                   staged, cacheVars, reportVars, probe>>

\* handle_email_actions -> _edit_email
EditEmail ==
    /\ email_action = "edit"
    /\ editing_email' = TRUE
    /\ email_action' = ""
    /\ tool_obs' = [NoToolObs EXCEPT !.op = "edit_email"]
    /\ UNCHANGED <<pending_email, messages, report_store, pdf_store, auto_generate_pdf,
                   mail_log, staged, cacheVars, reportVars, probe>>

InitTools ==
    /\ pending_email = NoEmail
    /\ email_action = ""
    /\ editing_email = FALSE
    /\ messages = <<>>
    /\ report_store = NoReport
    /\ pdf_store = NoPdf
    /\ auto_generate_pdf = FALSE
    /\ mail_log = <<>>
    /\ staged = 0
    /\ tool_obs = NoToolObs

\* ======================================================================
\*  Part 3 - JobCompatibilityAnalyzer.generate_compatibility_report
\*  (src/tools/job_compatibility_tool.py)
\* ======================================================================

\* A report text, abstracted to what _validate_report_completeness reads:
\* its length, its length after strip() and the number of section keywords
\* of the report language found in it.
Text(len, stripped, sections, source) ==
    [len |-> len, stripped |-> stripped, sections |-> sections, source |-> source]
NoText == Text(0, 0, 0, "none")

\* _validate_report_completeness without the section count.
validate_report_length_only(report_text) ==
    /\ report_text.len > 0
    /\ report_text.stripped >= MIN_REPORT_LENGTH

\* _validate_report_completeness(report_text, language)
validate_report_completeness(report_text) ==
    /\ report_text.len > 0
    /\ report_text.stripped >= MIN_REPORT_LENGTH
    /\ report_text.sections >= MIN_SECTIONS

\* What "complete" means for a report text: non-empty, at least
\* MIN_REPORT_LENGTH characters after strip() and at least MIN_SECTIONS
\* section keywords; recorded with every response of the report loop.
is_complete(report_text) ==
    /\ report_text.len > 0
    /\ report_text.stripped >= MIN_REPORT_LENGTH
    /\ report_text.sections >= MIN_SECTIONS

\* _generate_fallback_report: the template of the language (English for any
\* language but "tr") filled with the analysis fields; fill is the number of
\* interpolated characters.
generate_fallback_report(language, fill) ==
    LET literal == IF language = "tr" THEN FALLBACK_LITERAL_TR ELSE FALLBACK_LITERAL_EN
    IN  Text(literal + fill, literal + fill, 7, "fallback")

\* What one generate_content call of _generate_report_with_retry meets: an
\* exception, a response whose text is None or empty, or a text.
ModelTexts ==
    {Text(l, s, k, "model") : l \in {MIN_REPORT_LENGTH - 1, MIN_REPORT_LENGTH + 20},
                              s \in {MIN_REPORT_LENGTH - 1, MIN_REPORT_LENGTH},
                              k \in {MIN_SECTIONS - 1, MIN_SECTIONS}}
ReportOutcomes ==
    {[kind |-> "raise", text |-> NoText], [kind |-> "empty", text |-> NoText]}
        \cup {[kind |-> "text", text |-> t] : t \in {m \in ModelTexts : m.stripped <= m.len}}

\* ---- Step 1: extract_job_requirements ------------------------------------

\* What the generate_content call of a model step meets, by the shape of the
\* answer: the call raises; response.text is None; the text is not JSON; the
\* JSON is null, a number, a string, an array or an object.
\* A JobRequirements object, abstracted: position_title is "" / "null" (None)
\* / "title"; strings and lists say what the other string fields and the four
\* list fields hold.
NewRequirements(position_title, strings, lists) ==
    [position_title |-> position_title, strings |-> strings, lists |-> lists]

\* JobRequirements(**fields) without __post_init__: absent fields take the
\* dataclass defaults ("" and None), given values are stored as they are.
JobRequirements_raw(fields) ==
    NewRequirements(IF fields.position_title = "absent" THEN "" ELSE fields.position_title,
                    IF fields.strings = "absent" THEN "empty" ELSE fields.strings,
                    IF fields.lists = "absent" THEN "null" ELSE fields.lists)

\* JobRequirements(**fields): the defaults, then __post_init__ replaces every
\* falsy list field (None, []) by [].
JobRequirements(fields) ==
    LET raw == JobRequirements_raw(fields)
    IN  [raw EXCEPT !.lists = IF @ \in {"null", "empty"} THEN "empty" ELSE @]

NoFields == [position_title |-> "absent", strings |-> "absent", lists |-> "absent"]
EmptyRequirements == JobRequirements(NoFields)

RequirementFields ==
    [position_title : {"absent", "", "null", "title"},
     strings : {"absent", "filled"},
     lists : {"absent", "null", "empty", "filled"}]

ExtractionResponses ==
    {[kind |-> k, fields |-> NoFields] :
        k \in {"raise", "none_text", "not_json", "json_null", "json_array",
               "unknown_keys"}}
      \cup {[kind |-> "object", fields |-> f] : f \in RequirementFields}

\* extract_job_requirements(job_description) for a non-empty description.
\* _safe_json_parse turns text that is not JSON into {}; None text, JSON that
\* is no mapping and unknown keys raise inside the try block.
extract_job_requirements(response) ==
    CASE response.kind = "object" -> JobRequirements(response.fields)
      [] response.kind = "not_json" -> JobRequirements(NoFields)
      [] OTHER -> EmptyRequirements

\* ---- Step 3: analyze_compatibility_with_llm ------------------------------

RequiredFields == {"overall_compatibility_score", "skill_analysis",
                   "experience_analysis", "education_analysis"}

\* An analysis value, abstracted: where it comes from, the JSON shape it has,
\* the required field names it contains (as keys of an object, elements of an
\* array or substrings of a string: what Python's "in" tests), whether it
\* contains "error", whether its overall score is 0 and whether its
\* skill_analysis / experience_analysis values are objects.
NewAnalysis(origin, shape, names, error, score_zero, nested) ==
    [origin |-> origin, shape |-> shape, names |-> names, error |-> error,
     score_zero |-> score_zero, nested |-> nested]
NoAnalysis == NewAnalysis("none", "", {}, FALSE, FALSE, "")

\* _create_fallback_analysis(error): the zero-valued structure with all the
\* required fields, plus the "error" key when an error text is given.
create_fallback_analysis(error) ==
    NewAnalysis("fallback", "object", RequiredFields, error, TRUE, "objects")

NameSets == {RequiredFields, RequiredFields \ {"education_analysis"}, {}}
ScoringResponses ==
    {[kind |-> k, value |-> NoAnalysis] :
        k \in {"raise", "none_text", "not_json", "json_null", "json_number"}}
      \cup {[kind |-> "json_object",
             value |-> NewAnalysis("model", "object", n, e.error, e.score_zero, x)] :
              n \in NameSets,
              e \in {[error |-> FALSE, score_zero |-> FALSE],
                     [error |-> TRUE, score_zero |-> FALSE],
                     [error |-> TRUE, score_zero |-> TRUE]},
              x \in {"objects", "other"}}
      \cup {[kind |-> "json_array",
             value |-> NewAnalysis("model", "array", n, FALSE, FALSE, "")] :
              n \in NameSets}
      \cup {[kind |-> "json_string",
             value |-> NewAnalysis("model", "string", n, FALSE, FALSE, "")] :
              n \in NameSets}

\* analyze_compatibility_with_llm(job_requirements, cv_context): text that is
\* not JSON parses to {}; "field in analysis_result" raises TypeError on null
\* and on a number (caught: fallback with the error text) and is a membership
\* or substring test on an array or a string.
analyze_compatibility_with_llm(response) ==
    CASE response.kind \in {"raise", "none_text", "json_null", "json_number"} ->
            create_fallback_analysis(TRUE)
      [] response.kind = "not_json" -> create_fallback_analysis(FALSE)
      [] OTHER ->
            IF RequiredFields \subseteq response.value.names
            THEN response.value
            ELSE create_fallback_analysis(FALSE)

\* The test of step 3: '"error" in analysis and
\* analysis.get("overall_compatibility_score", 0) == 0'.
analysis_failed(analysis) == analysis.error /\ analysis.score_zero

\* Whether the .get() chains of _generate_fallback_report and of the success
\* dict work on the analysis: it is an object whose skill_analysis and
\* experience_analysis are objects; otherwise they raise AttributeError.
analysis_readable(analysis) ==
    analysis.shape = "object" /\ analysis.nested = "objects"

\* ---- Step 2: get_relevant_cv_context -------------------------------------

\* Chunk texts after strip(): 1..PoolSize are the distinct texts of the
\* corpus, 0 is a text that strips to "".
Pool == 0..PoolSize

\* Search queries are numbers, the same query string having the same
\* number: 0 position title, 1 skills, 2 education requirements, 3..6 the
\* generic education queries, 7 responsibilities, 8 industry, 9..16 the
\* education terms that are no generic query, 17 the general query.
\* What search_similar_chunks does in one retrieval: query q returns the
\* texts q*step, q*step+1, ... (mod the pool), best first, so that step = 0
\* gives every query the same hits and a larger step gives disjoint ones;
\* fail names the queries whose search raises, or tells that the searches
\* are unavailable (no embeddings, or no embedding of the query); edu names
\* the texts that _is_education_chunk accepts.
Oracles == [step : {0, 1, 4}, fail : {"none", "odd", "all", "unavailable"},
            edu : {"none", "even", "all"}]

\* The text of the one entry (similarity 0.0, index -1) an unavailable search
\* returns: the localized "embeddings not available" / "could not process
\* query" message, which is no text of the corpus.
SyntheticText == PoolSize + 1

search_similar_chunks(oracle, q, top_k) ==
    IF oracle.fail = "all" \/ (oracle.fail = "odd" /\ q % 2 = 1)
    THEN <<>>
    ELSE IF oracle.fail = "unavailable" THEN <<SyntheticText>>
    ELSE [j \in 1..top_k |-> (q * oracle.step + j - 1) % (PoolSize + 1)]

\* _is_education_chunk, as the set of texts it accepts; the messages of an
\* unavailable search hold none of its indicators and match none of its
\* patterns.
is_education_chunk(oracle) ==
    CASE oracle.edu = "all" -> Pool
      [] oracle.edu = "even" -> {c \in Pool : c % 2 = 0}
      [] OTHER -> {}

\* _build_search_queries(job_requirements): title, skills, education
\* requirements, the four generic education queries, responsibilities,
\* industry; a query is built only from a non-empty field.
build_search_queries(requirements) ==
    <<0>>
      \o (IF requirements.lists = "filled" THEN <<1>> ELSE <<>>)
      \o (IF requirements.strings = "filled" THEN <<2>> ELSE <<>>)
      \o <<3, 4, 5, 6>>
      \o (IF requirements.lists = "filled" THEN <<7>> ELSE <<>>)
      \o (IF requirements.strings = "filled" THEN <<8>> ELSE <<>>)

\* education_search_terms of _get_education_specific_chunks: ten fixed terms
\* (the first two are also generic queries of _build_search_queries), then
\* the education requirements.
education_search_terms(requirements) ==
    <<3, 4, 9, 10, 11, 12, 13, 14, 15, 16>>
      \o (IF requirements.strings = "filled" THEN <<2>> ELSE <<>>)

Range(s) == {s[i] : i \in DOMAIN s}

\* The inner loops of the three sweeps: append each text that is not blank,
\* not seen and accepted, and stop (full) as soon as an append reaches cap.
RECURSIVE append_unique(_, _, _, _)
append_unique(acc, items, accepted, cap) ==
    IF items = <<>> THEN [chunks |-> acc, full |-> FALSE]
    ELSE LET c == Head(items)
             take == c # 0 /\ c \notin Range(acc) /\ c \in accepted
             next == IF take THEN Append(acc, c) ELSE acc
         IN  IF take /\ Len(next) >= cap
             THEN [chunks |-> next, full |-> TRUE]
             ELSE append_unique(next, Tail(items), accepted, cap)

\* The outer loop of _collect_unique_chunks / _get_education_specific_chunks.
RECURSIVE sweep(_, _, _, _, _, _)
sweep(oracle, queries, acc, top_k, accepted, cap) ==
    IF queries = <<>> THEN acc
    ELSE LET r == append_unique(acc, search_similar_chunks(oracle, Head(queries), top_k),
                                accepted, cap)
         IN  IF r.full THEN r.chunks
             ELSE sweep(oracle, Tail(queries), r.chunks, top_k, accepted, cap)

collect_unique_chunks(oracle, queries) ==
    sweep(oracle, queries, <<>>, MAX_CHUNKS_PER_SEARCH, Pool \cup {SyntheticText},
          MAX_TOTAL_CHUNKS)

get_education_specific_chunks(oracle, requirements) ==
    sweep(oracle, education_search_terms(requirements), <<>>, EDUCATION_SWEEP_TOP_K,
          is_education_chunk(oracle), EDUCATION_SWEEP_CAP)

\* relevant_chunks[:MAX_TOTAL_CHUNKS]
joined_unsliced(chunks) == chunks

joined(chunks) ==
    SubSeq(chunks, 1, IF Len(chunks) < MAX_TOTAL_CHUNKS THEN Len(chunks)
                      ELSE MAX_TOTAL_CHUNKS)

\* A context: where it comes from, its chunk texts, how many texts were
\* gathered before the slice, what the education sweep returned and which
\* texts _is_education_chunk accepted in that retrieval.
NoContext == [source |-> "none", chunks |-> <<>>, gathered |-> 0,
              education |-> <<>>, edu |-> "none", empty |-> TRUE]

\* get_relevant_cv_context(job_requirements) of an analyzer that has a RAG
\* system: the query sweep, the education sweep merged in, the general
\* search, then the first MAX_TOTAL_CHUNKS texts joined; without any chunk
\* the text of _format_cv_data_as_text, which is "" for a resume without any
\* of the sections it formats.
get_relevant_cv_context(oracle, requirements, cv_text_empty) ==
    LET relevant_chunks == collect_unique_chunks(oracle, build_search_queries(requirements))
        education_chunks == get_education_specific_chunks(oracle, requirements)
        merged == append_unique(relevant_chunks, education_chunks,
                                Pool \cup {SyntheticText},
                                MAX_TOTAL_CHUNKS).chunks
        all == append_unique(merged,
                             search_similar_chunks(oracle, 17,
                                                   GENERAL_SEARCH_CHUNKS),
                             Pool \cup {SyntheticText}, MAX_TOTAL_CHUNKS).chunks
    IN  IF all # <<>>
        THEN [source |-> "retrieval", chunks |-> joined(all), gathered |-> Len(all),
              education |-> education_chunks, edu |-> oracle.edu, empty |-> FALSE]
        ELSE [NoContext EXCEPT !.source = "cv_data", !.empty = cv_text_empty]

NoResult == [kind |-> "none", error_type |-> "", report_text |-> NoText]
ErrorResult(error_type) == [kind |-> "error", error_type |-> error_type,
                            report_text |-> NoText]
ReportResult(text) == [kind |-> "report", error_type |-> "", report_text |-> text]

\* The success dict of generate_compatibility_report and the fallback report
\* read the analysis with .get() chains; an AttributeError there is caught by
\* the except clause of generate_compatibility_report ("system").
ReturnReport(analysis, text) ==
    IF analysis_readable(analysis) THEN ReportResult(text) ELSE ErrorResult("system")

\* One analysis: its inputs, the stages entered so far (trail) and what each
\* step produced.
NoJob == [n |-> 0, description |-> "", language |-> "", fill |-> 0, reached |-> FALSE,
          trail |-> <<>>, extraction |-> "", requirements |-> EmptyRequirements,
          context |-> NoContext, analysis |-> NoAnalysis]

InitReport ==
    /\ stage = "idle"
    /\ job = NoJob
    /\ attempt = 0
    /\ gen_calls = 0
    /\ outcomes = <<>>
    /\ result = NoResult

Finish(r) ==
    /\ stage' = "done"
    /\ result' = r

\* generate_compatibility_report(job_description, language): entry and the
\* validation of the description.
StartAnalysis(description, language, fill) ==
    /\ analyzer_cv # 0
    /\ stage \in {"idle", "done"}
    /\ job.n < MaxAnalyses
    /\ job' = [NoJob EXCEPT !.n = job.n + 1, !.description = description,
                            !.language = language, !.fill = fill,
                            !.trail = IF description \in {"empty", "blank"} THEN <<>>
                                      ELSE <<"RequirementsExtraction">>]
    /\ attempt' = 0
    /\ gen_calls' = 0
    /\ outcomes' = <<>>
    /\ IF description \in {"empty", "blank"}
       THEN Finish(ErrorResult("validation"))
       ELSE stage' = "RequirementsExtraction" /\ result' = NoResult
    /\ UNCHANGED <<cacheVars, toolVars, probe>>

\* Step 1: extract_job_requirements; without a position title ("" or None)
\* the run ends with the extraction error.
ExtractRequirements(response) ==
    /\ stage = "RequirementsExtraction"
    /\ \E job_requirements \in {extract_job_requirements(response)} :
          /\ IF job_requirements.position_title \in {"", "null"}
             THEN /\ Finish(ErrorResult("extraction"))
                  /\ job' = [job EXCEPT !.extraction = response.kind,
                                        !.requirements = job_requirements]
             ELSE /\ stage' = "ContextRetrieval"
                  /\ job' = [job EXCEPT !.extraction = response.kind,
                                        !.requirements = job_requirements,
                                        !.trail = Append(@, "ContextRetrieval")]
                  /\ UNCHANGED result
    /\ UNCHANGED <<attempt, gen_calls, outcomes, cacheVars, toolVars, probe>>

\* Step 2: get_relevant_cv_context; an empty context ends the run.
RetrieveContext(oracle, cv_text_empty) ==
    /\ stage = "ContextRetrieval"
    /\ \E cv_context \in {get_relevant_cv_context(oracle, job.requirements,
                                                  cv_text_empty)} :
          /\ IF cv_context.empty
             THEN /\ Finish(ErrorResult("cv_context"))
                  /\ job' = [job EXCEPT !.context = cv_context]
             ELSE /\ stage' = "CompatibilityScoring"
                  /\ job' = [job EXCEPT !.context = cv_context,
                                        !.trail = Append(@, "CompatibilityScoring")]
                  /\ UNCHANGED result
    /\ UNCHANGED <<attempt, gen_calls, outcomes, cacheVars, toolVars, probe>>

\* Step 3: analyze_compatibility_with_llm; an analysis carrying "error" and
\* a zero overall score ends the run. cv_context is read by this step only,
\* so the job keeps it no longer.
ScoreCompatibility(response) ==
    /\ stage = "CompatibilityScoring"
    /\ \E compatibility_analysis \in {analyze_compatibility_with_llm(response)} :
          /\ IF analysis_failed(compatibility_analysis)
             THEN /\ Finish(ErrorResult("analysis"))
                  /\ job' = [job EXCEPT !.analysis = compatibility_analysis]
             ELSE /\ stage' = "ReportGeneration"
                  /\ job' = [job EXCEPT !.analysis = compatibility_analysis,
                                        !.context = NoContext,
                                        !.reached = TRUE,
                                        !.trail = Append(@, "ReportGeneration")]
                  /\ UNCHANGED result
    /\ UNCHANGED <<attempt, gen_calls, outcomes, cacheVars, toolVars, probe>>

\* Step 4: one pass of the loop of _generate_report_with_retry: the prompt
\* carries the completion directive on every attempt after the first and the
\* temperature (in tenths) rises by one per attempt. An exception on the last
\* attempt is re-raised and caught by the except clause of
\* generate_compatibility_report, which returns the "system" error dict.
ReportAttempt(o) ==
    /\ stage = "ReportGeneration"
    /\ attempt < MAX_RETRIES
    /\ gen_calls' = gen_calls + 1
    /\ outcomes' = Append(outcomes, [kind |-> o.kind, directive |-> attempt > 0,
                                     temperature |-> REPORT_TEMPERATURE_TENTHS + attempt,
                                     complete |-> is_complete(o.text)])
    /\ CASE o.kind = "text" /\ validate_report_completeness(o.text) ->
                Finish(ReturnReport(job.analysis, o.text)) /\ UNCHANGED attempt
         [] o.kind = "raise" /\ attempt = MAX_RETRIES - 1 ->
                Finish(ErrorResult("system")) /\ UNCHANGED attempt
         [] OTHER ->
                attempt' = attempt + 1 /\ UNCHANGED <<stage, result>>
    /\ UNCHANGED <<job, cacheVars, toolVars, probe>>

\* Step 4, after the loop ran out: the fallback report is returned.
FallbackReport ==
    /\ stage = "ReportGeneration"
    /\ attempt = MAX_RETRIES
    /\ Finish(ReturnReport(job.analysis,
                           generate_fallback_report(job.language, job.fill)))
    /\ UNCHANGED <<job, attempt, gen_calls, outcomes, cacheVars, toolVars, probe>>

NoProbe == [fn |-> "none"]

Init == InitCache /\ InitTools /\ InitReport /\ probe = NoProbe

\* The outcomes the environment can give one load of the document at path p:
\* the set of failing embedding batches and the fault met by the save.
BatchFailures(p) == SUBSET (1..Batches(NumChunks(cv_files[p])))
RemoveFailures == {rf \in SUBSET CacheFiles : Cardinality(rf) <= 1}

NextCache ==
    \/ \E p \in Paths, m \in Models : \E failed \in BatchFailures(p), fault \in SaveFaults :
            NewSession(p, m, failed, fault)
    \/ /\ json_path # ""
       /\ \E rf \in RemoveFailures, failed \in BatchFailures(json_path), fault \in SaveFaults :
            Refresh(rf, failed, fault)
    \/ \E rf \in RemoveFailures : ClearCache(rf)
    \/ \E p \in Paths, c \in Contents : ChangeCv(p, c)
    \/ Search

SpecCache == Init /\ [][NextCache]_vars

\* ---- SpecTools: one session whose corpus load succeeded or failed -------
InitSession ==
    /\ cv_files = [p \in Paths |-> 1]
    /\ embedding_model = "models/text-embedding-004"
    /\ json_path = "selman-cv.json"
    /\ search_result = <<>>
    /\ \E failed \in BatchFailures("selman-cv.json") :
         LET r == load_cv(BlankMem, EmptyDisk, "selman-cv.json",
                          "models/text-embedding-004", failed, "none", "new_session")
         IN  /\ chunks_file = r.disk.chunks
             /\ embeddings_file = r.disk.embeddings
             /\ info_file = r.disk.info
             /\ cv_data = r.mem.cv_data
             /\ cv_chunks = r.mem.cv_chunks
             /\ cv_embeddings = r.mem.cv_embeddings
             /\ analyzer_cv = r.mem.analyzer_cv
             /\ last = r.obs
             /\ last_saved = IF r.obs.save_ret = "true"
                             THEN <<"selman-cv.json", get_file_hash("selman-cv.json"),
                                    "models/text-embedding-004">>
                             ELSE <<>>

NextTools ==
    \/ \E pdf_keyword \in BOOLEAN :
         \E o1 \in Outcomes : \E o2 \in (IF Retried(o1) THEN Outcomes ELSE {o1}) :
            \E env \in EnvsOf(<<o1, o2>>) :
               UserTurn(pdf_keyword, <<o1, o2>>, env)
    \/ \E action \in {"send", "cancel", "edit"} : ClickEmailButton(action)
    \/ \E outcome \in {"ok", "failed"} : SendEmail(outcome)
    \/ CancelEmail
    \/ EditEmail

InitLoaded == InitSession /\ InitTools /\ InitReport /\ probe = NoProbe

SpecTools == InitLoaded /\ [][NextTools]_vars

\* ---- SpecReport: analyses run one after another on a loaded analyzer ---
NextReport ==
    \/ \E description \in {"empty", "blank", "text"}, language \in {"en", "tr", "de"},
          fill \in 0..1 : StartAnalysis(description, language, fill)
    \/ \E response \in ExtractionResponses : ExtractRequirements(response)
    \/ \E oracle \in Oracles, cv_text_empty \in BOOLEAN :
          RetrieveContext(oracle, cv_text_empty)
    \/ \E response \in ScoringResponses : ScoreCompatibility(response)
    \/ \E o \in ReportOutcomes : ReportAttempt(o)
    \/ FallbackReport

SpecReport == InitLoaded /\ [][NextReport]_vars

\* The report loop runs in one thread without waiting for anything but the
\* return of its own calls: a pass that can run does run.
ReportStep ==
    \/ \E o \in ReportOutcomes : ReportAttempt(o)
    \/ FallbackReport

SpecReportFair == InitLoaded /\ [][NextReport]_vars /\ WF_vars(ReportStep)




\* ======================================================================
\*  Properties of the cache and the loader, checked under SpecCache
\* ======================================================================

LoadOps == {"new_session", "refresh"}
Aligned(chunks, rows) ==
    /\ Len(chunks) = Len(rows)
    /\ \A i \in 1..Len(rows) : rows[i] = embed_content(chunks[i])
FaultFree(obs) == ~obs.batch_failed /\ obs.save_fault = "none"
IdentityMatches(disk, path, model) ==
    /\ disk.info.state = "ok"
    /\ disk.info.cv_file_path = path
    /\ disk.info.cv_file_hash = get_file_hash(path)
    /\ disk.info.embedding_model = model
BothReadable(disk) == disk.chunks.state = "ok" /\ disk.embeddings.state = "ok"
StoredCountsAgree(disk) ==
    BothReadable(disk) => Len(disk.chunks.data) = Len(disk.embeddings.data)

\* C2: is_cache_valid(path) is true only if all three artifacts are present,
\* the identity record's path, content hash and model id equal the current
\* ones, and the stored chunk count agrees with the stored embedding count
\* (compared wherever both data files can be read).
C2_ValidOnlyIfCountsAgree ==
    \A p \in Paths :
        is_cache_valid(CurDisk, p, embedding_model) =>
            /\ chunks_file.state # "absent"
            /\ embeddings_file.state # "absent"
            /\ info_file.state # "absent"
            /\ IdentityMatches(CurDisk, p, embedding_model)
            /\ StoredCountsAgree(CurDisk)

\* C3: whenever a non-empty embedding matrix is held, it has one row per
\* chunk and row i is the embedding of chunk i; search pairs every vector
\* with its own text; and a save that returned True wrote such a pair.
C3_PairsAligned ==
    /\ (~cv_embeddings.none /\ Len(cv_embeddings.rows) > 0) =>
            Aligned(cv_chunks, cv_embeddings.rows)
    /\ \A k \in 1..Len(search_result) :
            search_result[k].index >= 0 =>
                search_result[k].vec = embed_content(search_result[k].text)
    /\ (last.save_ret = "true" /\ BothReadable(CurDisk)) =>
            Aligned(chunks_file.data, embeddings_file.data)

\* C4: save_to_cache is atomic for its caller: when it returns True the three
\* artifacts describe the saved data; when a write fails it does not return
\* True, and either no artifact was changed or is_cache_valid is then false.
DiskDescribes(disk, path, model, chunks, rows) ==
    /\ disk.chunks = PickleFile(chunks)
    /\ disk.embeddings = PickleFile(rows)
    /\ IdentityMatches(disk, path, model)
    /\ disk.info.chunks_count = Len(chunks)
C4_SaveAtomic ==
    /\ last.save_ret = "true" =>
            DiskDescribes(CurDisk, json_path, embedding_model, cv_chunks, cv_embeddings.rows)
    /\ (last.save_ret # "na" /\ last.save_fault # "none") =>
            /\ last.save_ret = "false"
            /\ ~last.save_changed \/ ~is_cache_valid(CurDisk, json_path, embedding_model)

\* C5: a first load on an empty cache directory finds the cache invalid,
\* embeds every chunk and saves; the next load of the unchanged source
\* finds the cache valid, takes chunks and embeddings from it and issues
\* no embedding call. (The embedding capability and the disk work.)
C5_FirstRunGenerates ==
    (CurDisk = EmptyDisk /\ last'.op = "new_session") =>
        /\ ~last'.valid /\ ~last'.cache_hit /\ last'.regenerated
        /\ last'.batch_calls = Batches(NumChunks(cv_data'))
        /\ FaultFree(last') =>
              /\ last'.embed_rows = NumChunks(cv_data')
              /\ Aligned(json_to_chunks(cv_data'), cv_embeddings'.rows)
              /\ last'.save_ret = "true"
              /\ DiskDescribes(CurDisk', json_path', embedding_model',
                               json_to_chunks(cv_data'), cv_embeddings'.rows)
C5_SecondRunFromCache ==
    (/\ last.op = "new_session" /\ last.regenerated /\ FaultFree(last)
     /\ last'.op = "new_session" /\ json_path' = json_path) =>
        /\ last'.valid /\ last'.cache_hit /\ ~last'.regenerated
        /\ last'.batch_calls = 0 /\ last'.embed_rows = 0
        /\ cv_chunks' = chunks_file.data
        /\ cv_embeddings'.rows = embeddings_file.data
        /\ Aligned(json_to_chunks(cv_data'), cv_embeddings'.rows)
        /\ UNCHANGED <<chunks_file, embeddings_file, info_file>>
C5_EmptyThenCached == [][C5_FirstRunGenerates /\ C5_SecondRunFromCache]_vars
C5_Witness ==
    /\ last.op = "new_session" /\ last.cache_hit /\ last.batch_calls = 0
    /\ cv_data = 2
    /\ Len(cv_embeddings.rows) = NumChunks(2)
    /\ Aligned(cv_chunks, cv_embeddings.rows)

\* C6: after a save_to_cache that returned True for a source file, a change
\* of the file's bytes, of the path or of the model id makes is_cache_valid
\* false until the cache is regenerated.
C6_ChangeInvalidates ==
    \A p \in Paths :
        (last_saved # <<>> /\ <<p, get_file_hash(p), embedding_model>> # last_saved) =>
            ~is_cache_valid(CurDisk, p, embedding_model)

RECURSIVE NoDuplicates(_)
NoDuplicates(s) ==
    \/ Len(s) <= 1
    \/ /\ \A i \in 2..Len(s) : s[i] # s[1]
       /\ NoDuplicates(Tail(s))

\* C8: no chat turn, whatever tool it dispatches, hands anything to the mail
\* transport; a prepare_email dispatch returns success and leaves a pending
\* e-mail with the fixed subject that has not been delivered; the transport
\* receives an e-mail only in the step that handles a 'send' action, and
\* then it is the pending e-mail.
C8_OnlySendDelivers ==
    [][ /\ tool_obs'.op = "turn" => mail_log' = mail_log
        /\ (tool_obs'.op = "turn" /\ tool_obs'.tool = "prepare_email") =>
              /\ tool_obs'.success
              /\ tool_obs'.response = "EMAIL_PREPARED_FOR_REVIEW"
              /\ pending_email' = [present |-> TRUE, id |-> staged',
                                   keys |-> tool_obs'.keys \cup {"subject"}]
              /\ \A i \in 1..Len(mail_log') : mail_log'[i] # staged'
        /\ mail_log' # mail_log =>
              /\ email_action = "send"
              /\ tool_obs'.op = "send_email"
              /\ pending_email.present
              /\ mail_log' = Append(mail_log, pending_email.id) ]_vars
C8_Witness ==
    /\ tool_obs.op = "send_email"
    /\ mail_log = <<1>>
    /\ staged = 1
    /\ ~pending_email.present

\* C9: the step that handles a 'send' action (transport succeeding or
\* failing) and the step that handles a 'cancel' action remove the pending
\* e-mail and the pending action; handling 'edit' keeps the pending e-mail;
\* cancel hands nothing to the transport; no staged e-mail is handed to the
\* transport twice.
C9_PendingLifecycle ==
    [][ /\ (email_action = "send" /\ tool_obs'.op = "send_email") =>
              ~pending_email'.present /\ email_action' = ""
        /\ (email_action = "cancel" /\ tool_obs'.op = "cancel_email") =>
              ~pending_email'.present /\ email_action' = "" /\ mail_log' = mail_log
        /\ (email_action = "edit" /\ tool_obs'.op = "edit_email") =>
              pending_email' = pending_email /\ pending_email'.present
        /\ NoDuplicates(mail_log') ]_vars

\* C10: a turn that dispatches prepare_email without sender_name,
\* sender_email or message, or analyze_job_compatibility without
\* job_description or company_name, gets a failure result and leaves the
\* pending e-mail and the stored report as they were.
C10_MissingArgumentFails ==
    LET lacking ==
          \/ tool_obs.tool = "prepare_email" /\ ~(EmailKeys \subseteq tool_obs.keys)
          \/ /\ tool_obs.tool = "analyze_job_compatibility"
             /\ ~({"job_description", "company_name"} \subseteq tool_obs.keys)
    IN  (tool_obs.op = "turn" /\ lacking) => ~tool_obs.success /\ ~tool_obs.changed

\* ======================================================================
\*  Properties of the report pipeline, checked under SpecReport
\* ======================================================================

\* C1: every finished run that reached the report generation stage returns
\* a report of at least MIN_REPORT_LENGTH characters, whatever the report
\* attempts met (exception, empty text, incomplete report); never an error.
C1_ReportAlwaysReturned ==
    (stage = "done" /\ job.reached) =>
        /\ result.kind = "report"
        /\ result.report_text.len >= MIN_REPORT_LENGTH

\* ---- claims about the analysis, PDF and retry paths of a turn -----------

\* A turn whose one dispatched tool is tool_name.
Dispatched(tool_name) ==
    /\ tool_obs.op = "turn"
    /\ tool_obs.dispatches > 0
    /\ tool_obs.tool = tool_name

\* C11: an analysis request that carries all three required arguments with a
\* non-empty job description, on an initialised analyzer whose pipeline
\* produces a report, succeeds and leaves the complete report (text, job
\* title, company name, language) stored for the PDF export.
C11_AnalysisStoresReport ==
    (/\ Dispatched("analyze_job_compatibility")
     /\ AnalyzeKeys \subseteq tool_obs.keys
     /\ ~tool_obs.jd_empty
     /\ analyzer_cv # 0
     /\ tool_obs.pipeline = "ok")
    => /\ tool_obs.success
       /\ report_store.present
       /\ ~report_store.partial
       /\ report_store.language = (IF tool_obs.lang \in {"en", "tr"}
                                    THEN tool_obs.lang ELSE "en")

\* C12: generate_compatibility_pdf dispatched while no report is stored
\* returns the failure "run an analysis first", raises nothing, never calls
\* the document renderer and leaves the stored PDF as it was.
C12_PdfNeedsReport ==
    [][(~report_store.present /\ Dispatched("generate_compatibility_pdf")')
         => /\ ~tool_obs'.success
            /\ tool_obs'.message = "Please run a new analysis first."
            /\ ~tool_obs'.raised
            /\ tool_obs'.response = "tool_failed"
            /\ tool_obs'.renders = 0
            /\ pdf_store' = pdf_store]_vars

C12_Witness ==
    /\ Dispatched("generate_compatibility_pdf")
    /\ tool_obs.message = "Please run a new analysis first."
    /\ ~report_store.present
    /\ ~pdf_store.present

\* C13: a turn gives up with the localized failure message only after two
\* retries, that is after three generation calls that all failed transiently
\* (exception, None response or empty response), one retry notice shown
\* before each retry; nothing is raised to the caller.
C13_TwoRetriesBeforeFailure ==
    (/\ tool_obs.op = "turn"
     /\ tool_obs.response \in {"no_response_generated", "error_generating_response"})
    => /\ tool_obs.retries = 2
       /\ tool_obs.gen_calls = 3
       /\ ~tool_obs.raised

\* C14: a dispatched tool that hands back a failure result is the turn's
\* answer at once: the tool ran exactly once, no retry notice was shown for
\* it (notices match the generation calls that raised or came back empty)
\* and no generation call followed the dispatch.
C14_ToolFailureNotRetried ==
    (tool_obs.op = "turn" /\ tool_obs.failures > 0)
    => /\ tool_obs.response = "tool_failed"
       /\ tool_obs.failures = 1
       /\ tool_obs.executed = 1
       /\ tool_obs.retries = tool_obs.transients
       /\ tool_obs.gen_calls = tool_obs.transients + 1

C14_Witness ==
    /\ tool_obs.op = "turn"
    /\ tool_obs.failures = 1
    /\ tool_obs.gen_calls = 1
    /\ tool_obs.message = "Job description is required"
    /\ tool_obs.response = "tool_failed"

StageOrder == <<"RequirementsExtraction", "ContextRetrieval",
                "CompatibilityScoring", "ReportGeneration">>

\* C16: the stages of an analysis are entered in the order
\* RequirementsExtraction, ContextRetrieval, CompatibilityScoring,
\* ReportGeneration, each at most once and only while no error result was
\* returned; a run that reached ReportGeneration ends with a model report
\* that passed the completeness validation or with the fallback report.
C16_StagesInOrderToTerminal ==
    /\ Len(job.trail) <= Len(StageOrder)
    /\ job.trail = SubSeq(StageOrder, 1, Len(job.trail))
    /\ stage \in Range(StageOrder)
          => /\ job.trail # <<>>
             /\ stage = job.trail[Len(job.trail)]
             /\ result = NoResult
    /\ (stage = "done" /\ Len(job.trail) = Len(StageOrder))
          => /\ result.kind = "report"
             /\ \/ result.report_text.source = "fallback"
                \/ /\ result.report_text.source = "model"
                   /\ is_complete(result.report_text)

\* C17: the report loop makes at most MAX_RETRIES generation calls, makes no
\* call after a response that is complete (and returns that response), puts
\* the completion directive into every call after the first and raises the
\* temperature by 0.1 per attempt from REPORT_TEMPERATURE.
C17_ReportLoopInv ==
    /\ gen_calls <= MAX_RETRIES
    /\ attempt <= MAX_RETRIES
    /\ gen_calls = Len(outcomes)
    /\ stage = "ReportGeneration" => attempt = gen_calls
    /\ \A i \in DOMAIN outcomes :
          /\ outcomes[i].directive = (i > 1)
          /\ outcomes[i].temperature = REPORT_TEMPERATURE_TENTHS + (i - 1)
          /\ (outcomes[i].kind = "text" /\ outcomes[i].complete)
                => /\ i = Len(outcomes)
                   /\ stage = "done"
                   /\ analysis_readable(job.analysis)
                         => /\ result.kind = "report"
                            /\ result.report_text.source = "model"
                            /\ is_complete(result.report_text)
    /\ (result.kind = "report" /\ result.report_text.source = "model")
          => /\ outcomes # <<>>
             /\ outcomes[Len(outcomes)].complete

\* C17 (with termination): the invariant above holds in every state and a
\* run that entered the report loop leaves it.
C17_ReportLoopTerminates ==
    /\ []C17_ReportLoopInv
    /\ (stage = "ReportGeneration") ~> (stage = "done")

C17_Witness ==
    /\ stage = "done"
    /\ Len(outcomes) = MAX_RETRIES
    /\ outcomes[1].kind = "raise"
    /\ outcomes[2].kind = "text" /\ ~outcomes[2].complete
    /\ outcomes[MAX_RETRIES].complete
    /\ outcomes[MAX_RETRIES].temperature = REPORT_TEMPERATURE_TENTHS + 2
    /\ result.kind = "report"
    /\ result.report_text.source = "model"

\* The answers extract_job_requirements cannot use: the call failed, there is
\* no text, the text is not JSON, or the JSON is no object of known fields.
UnusableExtraction == {"raise", "none_text", "not_json", "json_null", "json_array",
                       "unknown_keys"}

\* C18: extract_job_requirements never raises (no run ends its first stage
\* with the "system" error of an escaped exception); an unusable answer gives
\* the all-empty JobRequirements; the list fields are never null; and with an
\* empty position title the analysis ends with the extraction error before
\* any retrieval, scoring or report-generation call.
C18_ExtractionTolerant ==
    job.extraction # ""
    => /\ (stage = "done" /\ Len(job.trail) = 1) => result.error_type = "extraction"
       /\ job.extraction \in UnusableExtraction
             => job.requirements = [position_title |-> "", strings |-> "empty",
                                    lists |-> "empty"]
       /\ job.requirements.lists # "null"
       /\ job.requirements.position_title \in {"", "null"}
             => /\ stage = "done"
                /\ result = ErrorResult("extraction")
                /\ job.trail = <<"RequirementsExtraction">>
                /\ job.context = NoContext
                /\ job.analysis = NoAnalysis
                /\ gen_calls = 0

C18_Witness ==
    /\ job.extraction = "unknown_keys"
    /\ job.requirements.lists = "empty"
    /\ stage = "done"
    /\ result.error_type = "extraction"

\* C19: the analysis that analyze_compatibility_with_llm returns is either
\* the model's parsed object holding all four required top-level keys or the
\* zero-valued fallback analysis; nothing else is passed on.
C19_AnalysisObjectOrFallback ==
    job.analysis # NoAnalysis
    => \/ /\ job.analysis.origin = "model"
          /\ job.analysis.shape = "object"
          /\ RequiredFields \subseteq job.analysis.names
       \/ job.analysis \in {create_fallback_analysis(FALSE),
                            create_fallback_analysis(TRUE)}

\* C20: a context built from retrieval holds at most MAX_TOTAL_CHUNKS chunk
\* texts and none twice; the education sweep returns at most
\* EDUCATION_SWEEP_CAP texts, each accepted by _is_education_chunk.
C20_ContextCapped ==
    job.context.source = "retrieval"
    => /\ Len(job.context.chunks) <= MAX_TOTAL_CHUNKS
       /\ Cardinality(Range(job.context.chunks)) = Len(job.context.chunks)
       /\ Len(job.context.education) <= EDUCATION_SWEEP_CAP
       /\ Cardinality(Range(job.context.education)) = Len(job.context.education)
       /\ Range(job.context.education)
             \subseteq is_education_chunk([edu |-> job.context.edu])

C20_Witness ==
    /\ job.context.source = "retrieval"
    /\ job.context.gathered > MAX_TOTAL_CHUNKS
    /\ Len(job.context.chunks) = MAX_TOTAL_CHUNKS
    /\ Len(job.context.education) = EDUCATION_SWEEP_CAP
    /\ job.context.edu = "even"

\* ======================================================================
\*  Part 4 - the stateless helpers of app.py, called directly
\* ======================================================================
\* A str is modelled as the sequence of its characters, so that lower(),
\* strip(), split() and the substring test `a in b` are computed. The
\* module is written in ASCII: the Turkish letters are spelled "c^"
\* (c with cedilla), "g^" (soft g), "i^" (dotless i), "o^", "s^", "u^", and
\* their capitals "C^", "G^", "O^", "S^", "U^"; each is one character.
\* str.lower()
str_lower(s) ==
    LET capitals == <<"A", "B", "C", "D", "E", "F", "G", "H", "I", "J", "K", "L", "M", "N", "O", "P", "Q", "R", "S", "T", "U", "V", "W", "X", "Y", "Z", "C^", "G^", "O^", "S^", "U^">>
        smalls == <<"a", "b", "c", "d", "e", "f", "g", "h", "i", "j", "k", "l", "m", "n", "o", "p", "q", "r", "s", "t", "u", "v", "w", "x", "y", "z", "c^", "g^", "o^", "s^", "u^">>
    IN  [i \in 1..Len(s) |->
            IF \E k \in 1..Len(capitals) : capitals[k] = s[i]
            THEN smalls[CHOOSE k \in 1..Len(capitals) : capitals[k] = s[i]]
            ELSE s[i]]

\* str.strip()
str_strip(s) ==
    LET keep == {i \in 1..Len(s) : s[i] # " "}
    IN  IF keep = {} THEN <<>>
        ELSE SubSeq(s, CHOOSE i \in keep : \A j \in keep : i <= j,
                       CHOOSE i \in keep : \A j \in keep : j <= i)

\* sub in s
str_in(sub, s) ==
    \E i \in 0..(Len(s) - Len(sub)) : SubSeq(s, i + 1, i + Len(sub)) = sub

\* set(s.split()): the maximal runs of non-blank characters
str_split(s) ==
    {SubSeq(s, i, j) : <<i, j>> \in
        {ij \in (1..Len(s)) \X (1..Len(s)) :
            /\ ij[1] <= ij[2]
            /\ \A k \in ij[1]..ij[2] : s[k] # " "
            /\ (ij[1] = 1 \/ s[ij[1] - 1] = " ")
            /\ (ij[2] = Len(s) \/ s[ij[2] + 1] = " ")}}

\* ---- GeminiEmbeddingRAG._calculate_keyword_boost -------------------------
\* Scores are floats; the model counts them in hundredths.
KEYWORD_BOOST_SCORE == 20

\* keyword_mappings, in the order of the dict literal
keyword_mappings == <<
    [key |-> <<"p", "r", "o", "j", "e">>,
     keywords |-> <<<<"p", "r", "o", "j", "e", "c", "t">>, <<"p", "r", "o", "j", "e">>>>],
    [key |-> <<"p", "r", "o", "j", "e", "c", "t", "s">>,
     keywords |-> <<<<"p", "r", "o", "j", "e", "c", "t">>, <<"p", "r", "o", "j", "e">>>>],
    [key |-> <<"d", "e", "n", "e", "y", "i", "m">>,
     keywords |-> <<<<"e", "x", "p", "e", "r", "i", "e", "n", "c", "e">>, <<"d", "e", "n", "e", "y", "i", "m">>, <<"w", "o", "r", "k">>, <<"i", "s^">>>>],
    [key |-> <<"e", "x", "p", "e", "r", "i", "e", "n", "c", "e">>,
     keywords |-> <<<<"e", "x", "p", "e", "r", "i", "e", "n", "c", "e">>, <<"d", "e", "n", "e", "y", "i", "m">>, <<"w", "o", "r", "k">>, <<"i", "s^">>>>],
    [key |-> <<"w", "o", "r", "k">>,
     keywords |-> <<<<"e", "x", "p", "e", "r", "i", "e", "n", "c", "e">>, <<"d", "e", "n", "e", "y", "i", "m">>, <<"w", "o", "r", "k">>, <<"i", "s^">>>>],
    [key |-> <<"i", "s^">>,
     keywords |-> <<<<"e", "x", "p", "e", "r", "i", "e", "n", "c", "e">>, <<"d", "e", "n", "e", "y", "i", "m">>, <<"w", "o", "r", "k">>, <<"i", "s^">>>>],
    [key |-> <<"c^", "a", "l", "i^", "s^">>,
     keywords |-> <<<<"e", "x", "p", "e", "r", "i", "e", "n", "c", "e">>, <<"d", "e", "n", "e", "y", "i", "m">>, <<"w", "o", "r", "k">>, <<"i", "s^">>>>],
    [key |-> <<"e", "g^", "i", "t", "i", "m">>,
     keywords |-> <<<<"e", "d", "u", "c", "a", "t", "i", "o", "n">>, <<"e", "g^", "i", "t", "i", "m">>, <<"u", "n", "i", "v", "e", "r", "s", "i", "t", "y">>, <<"u^", "n", "i", "v", "e", "r", "s", "i", "t", "e">>, <<"d", "e", "g", "r", "e", "e">>, <<"d", "e", "r", "e", "c", "e">>>>],
    [key |-> <<"e", "d", "u", "c", "a", "t", "i", "o", "n">>,
     keywords |-> <<<<"e", "d", "u", "c", "a", "t", "i", "o", "n">>, <<"e", "g^", "i", "t", "i", "m">>, <<"u", "n", "i", "v", "e", "r", "s", "i", "t", "y">>, <<"u^", "n", "i", "v", "e", "r", "s", "i", "t", "e">>, <<"d", "e", "g", "r", "e", "e">>, <<"d", "e", "r", "e", "c", "e">>>>],
    [key |-> <<"u", "n", "i", "v", "e", "r", "s", "i", "t", "y">>,
     keywords |-> <<<<"e", "d", "u", "c", "a", "t", "i", "o", "n">>, <<"e", "g^", "i", "t", "i", "m">>, <<"u", "n", "i", "v", "e", "r", "s", "i", "t", "y">>, <<"u^", "n", "i", "v", "e", "r", "s", "i", "t", "e">>>>],
    [key |-> <<"u^", "n", "i", "v", "e", "r", "s", "i", "t", "e">>,
     keywords |-> <<<<"e", "d", "u", "c", "a", "t", "i", "o", "n">>, <<"e", "g^", "i", "t", "i", "m">>, <<"u", "n", "i", "v", "e", "r", "s", "i", "t", "y">>, <<"u^", "n", "i", "v", "e", "r", "s", "i", "t", "e">>>>]>>

\* The inner loop without its break: one increment per synonym found.
calculate_keyword_boost_per_synonym(query, chunk) ==
    LET query_lower == str_lower(query)
        chunk_lower == str_lower(chunk)
        RECURSIVE boost(_)
        boost(i) ==
            IF i > Len(keyword_mappings) THEN 0
            ELSE (IF str_in(keyword_mappings[i].key, query_lower)
                  THEN KEYWORD_BOOST_SCORE *
                       Cardinality({k \in 1..Len(keyword_mappings[i].keywords) :
                                      str_in(keyword_mappings[i].keywords[k], chunk_lower)})
                  ELSE 0) + boost(i + 1)
    IN  boost(1)

calculate_keyword_boost(query, chunk) ==
    LET query_lower == str_lower(query)
        chunk_lower == str_lower(chunk)
        RECURSIVE boost(_)
        boost(i) ==
            IF i > Len(keyword_mappings) THEN 0
            ELSE (IF /\ str_in(keyword_mappings[i].key, query_lower)
                     /\ \E k \in 1..Len(keyword_mappings[i].keywords) :
                            str_in(keyword_mappings[i].keywords[k], chunk_lower)
                  THEN KEYWORD_BOOST_SCORE
                  ELSE 0) + boost(i + 1)
    IN  boost(1)


\* ---- GeminiEmbeddingRAG.search_similar_chunks ----------------------------
\* The loop body's similarity without the norm test: a vector of norm 0 is
\* scored as if it were parallel to every other.
similarity_unguarded(query_vec, chunk_vec) == 100

\* if query_norm > 0 and chunk_norm > 0:
\*     similarity = np.dot(query_vec, chunk_vec) / (query_norm * chunk_norm)
\* else: similarity = 0.0
\* in hundredths, rounded towards 0: with n the product of the squares of the
\* two norms, |cosine| = sqrt(dot * dot / n).
similarity(query_vec, chunk_vec) ==
    LET np_dot(a, b) ==
            LET RECURSIVE sum(_)
                sum(i) == IF i = 0 THEN 0 ELSE a[i] * b[i] + sum(i - 1)
            IN  sum(Len(a))
        isqrt(x) == CHOOSE r \in 0..100 : r * r <= x /\ x < (r + 1) * (r + 1)
        d == np_dot(query_vec, chunk_vec)
        n == np_dot(query_vec, query_vec) * np_dot(chunk_vec, chunk_vec)
    IN  IF np_dot(query_vec, query_vec) > 0 /\ np_dot(chunk_vec, chunk_vec) > 0
        THEN IF d >= 0 THEN isqrt((10000 * d * d) \div n)
             ELSE 0 - isqrt((10000 * d * d) \div n)
        ELSE 0

\* A sort that puts an entry behind the later entries of equal score.
RECURSIVE sort_reverse_unstable(_)
sort_reverse_unstable(s) ==
    IF s = <<>> THEN <<>>
    ELSE LET rest == sort_reverse_unstable(Tail(s))
             k == Cardinality({i \in 1..Len(rest) :
                                  rest[i].similarity >= Head(s).similarity})
         IN  SubSeq(rest, 1, k) \o <<Head(s)>> \o SubSeq(rest, k + 1, Len(rest))

\* similarities.sort(key=lambda x: x["similarity"], reverse=True): list.sort
\* is stable, with reverse=True too: an entry goes behind the entries of
\* greater score and stays before the later entries of equal score.
RECURSIVE sort_reverse(_)
sort_reverse(s) ==
    IF s = <<>> THEN <<>>
    ELSE LET rest == sort_reverse(Tail(s))
             k == Cardinality({i \in 1..Len(rest) :
                                  rest[i].similarity > Head(s).similarity})
         IN  SubSeq(rest, 1, k) \o <<Head(s)>> \o SubSeq(rest, k + 1, Len(rest))


\* The search without its two early returns: nothing to rank, nothing returned.
search_similar_chunks_no_fallback(configured, embeddings, chunks, query, query_embedding, top_k) ==
    <<>>

\* GeminiEmbeddingRAG.search_similar_chunks(query, top_k) on an instance with
\* the given configured, cv_embeddings and cv_chunks; query_embedding is what
\* self.get_embeddings([query]) returned (an empty array when it failed).
\* The text of the single entry of the early returns is the system text of
\* that key in the conversation language.
rag_search_similar_chunks(configured, embeddings, chunks, query, query_embedding, top_k) ==
    IF ~configured \/ embeddings.none \/ Len(embeddings.rows) = 0
    THEN <<[text |-> <<"embeddings_not_available">>, similarity |-> 0, index |-> -1]>>
    ELSE IF Len(query_embedding) = 0
    THEN <<[text |-> <<"query_process_failed">>, similarity |-> 0, index |-> -1]>>
    ELSE LET query_vec == query_embedding[1]
             similarities ==
                 [i \in 1..Len(embeddings.rows) |->
                     [text |-> chunks[i],
                      similarity |-> similarity(query_vec, embeddings.rows[i])
                                     + calculate_keyword_boost(query, chunks[i]),
                      index |-> i - 1]]
             sorted == sort_reverse(similarities)
         IN  SubSeq(sorted, 1, IF top_k < Len(sorted) THEN top_k ELSE Len(sorted))

\* ---- inputs of the direct calls -------------------------------------------
DEFAULT_TOP_K == 4
PROJECT_TOP_K == 6
EDUCATION_TOP_K == 8
MaxChunks == 4        \* chunks of a corpus handed to the search

\* cv_chunks with cv_embeddings: None, an empty array, or one row per chunk
Corpora ==
    LET texts ==
            {<<"P", "r", "o", "j", "e", "c", "t">>,  \* Project
             <<"p", "y", "t", "h", "o", "n">>}  \* python
        vecs == {<<0, 0>>, <<1, 0>>}
    IN  UNION {[chunks : [1..n -> texts],
                embeddings : {NoEmbeddings, EmptyArray} \cup
                             {Matrix(rows) : rows \in [1..n -> vecs]}] :
                    n \in 0..MaxChunks}

\* ---- the direct calls -------------------------------------------------------
SearchCall ==
    /\ probe = NoProbe
    /\ \E configured \in BOOLEAN, corpus \in Corpora,
          query \in
              {<<"p", "r", "o", "j", "e", "c", "t", "s">>,  \* projects
               <<"h", "e", "l", "l", "o">>},  \* hello
          \* get_embeddings([query]): failed, a zero vector, a vector at 45 degrees
          query_embedding \in {<<>>, <<<<0, 0>>>>, <<<<1, 1>>>>},
          \* the callers' top_k: the analyzer's education sweep, the default
          top_k \in {EDUCATION_SWEEP_TOP_K, DEFAULT_TOP_K} :
          probe' = [fn |-> "search_similar_chunks",
                    configured |-> configured,
                    cv_embeddings |-> corpus.embeddings,
                    cv_chunks |-> corpus.chunks,
                    query |-> query,
                    query_embedding |-> query_embedding,
                    top_k |-> top_k,
                    ret |-> rag_search_similar_chunks(configured, corpus.embeddings,
                                corpus.chunks, query, query_embedding, top_k)]
    /\ UNCHANGED <<cacheVars, toolVars, reportVars>>

\* Calls of the boost follow one another, as in the loop of the search.
BoostCall ==
    /\ probe.fn \in {"none", "_calculate_keyword_boost"}
    /\ \E query \in
              {<<"p", "r", "o", "j", "e">>,  \* proje
               <<"P", "r", "o", "j", "e", "c", "t", "s">>,  \* Projects
               <<"P", "r", "o", "j", "e", "c", "t", "s", " ", "a", "n", "d", " ", "W", "O", "R", "K">>,  \* Projects and WORK
               <<"h", "e", "l", "l", "o">>,  \* hello
               <<"u", "n", "i", "v", "e", "r", "s", "i", "t", "y", " ", "d", "e", "g", "r", "e", "e">>,  \* university degree
               <<"w", "o", "r", "k", " ", "e", "x", "p", "e", "r", "i", "e", "n", "c", "e", " ", "i", "n", " ", "e", "d", "u", "c", "a", "t", "i", "o", "n">>},  \* work experience in education
          chunk \in
              {<<"P", "r", "o", "j", "e", "c", "t", " ", "w", "o", "r", "k">>,  \* Project work
               <<"p", "r", "o", "j", "e", " ", "p", "r", "o", "j", "e", "c", "t">>,  \* proje project
               <<"n", "e", "t", "w", "o", "r", "k">>,  \* network
               <<"p", "y", "t", "h", "o", "n">>,  \* python
               <<"D", "e", "g", "r", "e", "e">>,  \* Degree
               <<"U", "n", "i", "v", "e", "r", "s", "i", "t", "y", " ", "e", "d", "u", "c", "a", "t", "i", "o", "n">>} :  \* University education
          probe' = [fn |-> "_calculate_keyword_boost", query |-> query, chunk |-> chunk,
                    ret |-> calculate_keyword_boost(query, chunk)]
    /\ UNCHANGED <<cacheVars, toolVars, reportVars>>

\* The caller takes the value; nothing of the call is kept.
Return ==
    /\ probe # NoProbe
    /\ probe' = NoProbe
    /\ UNCHANGED <<cacheVars, toolVars, reportVars>>


\* ---- LanguageDetector --------------------------------------------------------
\* The class tables. Language.ENGLISH is "en", Language.TURKISH is "tr".
LanguageDetector ==
    [TURKISH_CHARS |->
        {"c^", "o^", "u^", "g^", "i^", "s^"},
     TURKISH_KEYWORDS |->
        {<<"a", "m", "a">>, <<"a", "n", "l", "a", "d", "i^", "m">>, <<"a", "n", "l", "a", "t">>,  \* ama | anladi^m | anlat
         <<"b", "e", "n">>, <<"b", "i", "l", "g", "i">>,  \* ben | bilgi
         <<"b", "i", "l", "m", "i", "y", "o", "r", "u", "m">>, <<"b", "i", "r">>, <<"b", "u">>,  \* bilmiyorum | bir | bu
         <<"d", "a">>, <<"d", "e">>, <<"d", "e", "n", "e", "y", "i", "m">>, <<"d", "e", "g^", "i", "l">>,  \* da | de | deneyim | deg^il
         <<"e", "g^", "i", "t", "i", "m">>, <<"f", "a", "k", "a", "t">>,  \* eg^itim | fakat
         <<"g", "o^", "n", "d", "e", "r">>, <<"g", "u^", "n", "a", "y", "d", "i^", "n">>,  \* go^nder | gu^naydi^n
         <<"h", "a", "k", "k", "i^", "n", "d", "a">>, <<"h", "a", "n", "g", "i">>, <<"i", "l", "e">>,  \* hakki^nda | hangi | ile
         <<"i", "l", "e", "t", "i", "s^", "i", "m">>, <<"i", "s", "t", "e", "r", "i", "m">>,  \* iletis^im | isterim
         <<"i", "s", "t", "i", "y", "o", "r", "u", "m">>, <<"i", "c^", "i", "n">>, <<"i", "s^">>,  \* istiyorum | ic^in | is^
         <<"k", "a", "r", "i", "y", "e", "r">>, <<"k", "i">>, <<"k", "i", "m", "d", "i", "r">>,  \* kariyer | ki | kimdir
         <<"l", "a", "k", "i", "n">>, <<"m", "e", "r", "h", "a", "b", "a">>,  \* lakin | merhaba
         <<"m", "e", "r", "h", "a", "b", "a", "l", "a", "r">>, <<"m", "e", "s", "a", "j">>,  \* merhabalar | mesaj
         <<"m", "e", "z", "u", "n">>, <<"n", "a", "s", "i^", "l">>,  \* mezun | nasi^l
         <<"n", "e", " ", "z", "a", "m", "a", "n">>, <<"n", "e", "d", "i", "r">>,  \* ne zaman | nedir
         <<"n", "e", "l", "e", "r">>, <<"n", "e", "r", "e", "d", "e">>, <<"o">>, <<"o", "k", "u", "l">>,  \* neler | nerede | o | okul
         <<"o", "l", "a", "n">>, <<"p", "r", "o", "j", "e">>, <<"p", "r", "o", "j", "e", "l", "e", "r">>,  \* olan | proje | projeler
         <<"s", "a", "g^", "o", "l">>, <<"s", "e", "l", "a", "m">>,  \* sag^ol | selam
         <<"s", "e", "l", "a", "m", "l", "a", "r">>, <<"s", "e", "n">>, <<"s", "o^", "y", "l", "e">>,  \* selamlar | sen | so^yle
         <<"t", "a">>, <<"t", "e">>, <<"t", "e", "s^", "e", "k", "k", "u^", "r">>,  \* ta | te | tes^ekku^r
         <<"t", "e", "s^", "e", "k", "k", "u^", "r", "l", "e", "r">>, <<"v", "a", "r">>, <<"v", "e">>,  \* tes^ekku^rler | var | ve
         <<"y", "a", "p">>, <<"y", "a", "p", "a", "n">>, <<"y", "o", "k">>,  \* yap | yapan | yok
         <<"c^", "a", "l", "i^", "s^", "m", "a">>, <<"c^", "u^", "n", "k", "u^">>,  \* c^ali^s^ma | c^u^nku^
         <<"u^", "n", "i", "v", "e", "r", "s", "i", "t", "e">>, <<"s^", "u">>},  \* u^niversite | s^u
     ENGLISH_KEYWORDS |->
        {<<"a", "b", "o", "u", "t">>, <<"a", "n", "d">>, <<"b", "e", "c", "a", "u", "s", "e">>,  \* about | and | because
         <<"b", "u", "t">>, <<"c", "a", "n">>, <<"c", "o", "u", "l", "d">>, <<"d", "o", "n", "'", "t">>,  \* but | can | could | don't
         <<"d", "o", "n", "t">>, <<"e", "d", "u", "c", "a", "t", "i", "o", "n">>,  \* dont | education
         <<"e", "x", "p", "e", "r", "i", "e", "n", "c", "e">>, <<"f", "o", "r">>, <<"h", "e">>,  \* experience | for | he
         <<"h", "e", "l", "l", "o">>, <<"h", "i">>, <<"h", "o", "w">>, <<"i">>, <<"i", "t">>,  \* hello | hi | how | i | it
         <<"j", "o", "b">>, <<"k", "n", "o", "w">>, <<"m", "y">>, <<"n", "e", "e", "d">>,  \* job | know | my | need
         <<"p", "r", "o", "j", "e", "c", "t">>, <<"s", "h", "e">>, <<"s", "h", "o", "u", "l", "d">>,  \* project | she | should
         <<"s", "h", "o", "w">>, <<"t", "e", "l", "l">>, <<"t", "h", "a", "n", "k">>,  \* show | tell | thank
         <<"t", "h", "a", "n", "k", "s">>, <<"t", "h", "a", "t">>, <<"t", "h", "e">>,  \* thanks | that | the
         <<"t", "h", "e", "y">>, <<"t", "h", "i", "s">>,  \* they | this
         <<"u", "n", "i", "v", "e", "r", "s", "i", "t", "y">>, <<"w", "a", "n", "t">>, <<"w", "e">>,  \* university | want | we
         <<"w", "h", "a", "t">>, <<"w", "h", "e", "n">>, <<"w", "h", "e", "r", "e">>, <<"w", "h", "o">>,  \* what | when | where | who
         <<"w", "h", "y">>, <<"w", "i", "t", "h">>, <<"w", "o", "r", "k">>, <<"w", "o", "u", "l", "d">>,  \* why | with | work | would
         <<"y", "o", "u">>, <<"y", "o", "u", "r">>},  \* you | your
     TURKISH_PHRASES |->
        {<<"b", "i", "l", "m", "i", "y", "o", "r", "u", "m">>,  \* bilmiyorum
         <<"e", "d", "e", "r", " ", "m", "i", "s", "i", "n">>,  \* eder misin
         <<"i", "s", "t", "i", "y", "o", "r", "u", "m">>,  \* istiyorum
         <<"s", "o^", "y", "l", "e", "y", "e", "b", "i", "l", "i", "r">>,  \* so^yleyebilir
         <<"v", "a", "r", " ", "m", "i^">>, <<"y", "a", "p", "a", "b", "i", "l", "i", "r">>},  \* var mi^ | yapabilir
     ENGLISH_PHRASES |->
        {<<"c", "a", "n", " ", "y", "o", "u">>, <<"c", "o", "u", "l", "d", " ", "y", "o", "u">>,  \* can you | could you
         <<"i", " ", "c", "a", "n">>, <<"i", " ", "d", "o", "n", "'", "t">>,  \* i can | i don't
         <<"i", " ", "d", "o", "n", "t">>, <<"i", " ", "n", "e", "e", "d">>,  \* i dont | i need
         <<"i", " ", "w", "a", "n", "t">>, <<"i", " ", "w", "o", "u", "l", "d">>},  \* i want | i would
     TURKISH_GREETINGS |->
        {<<"g", "u^", "n", "a", "y", "d", "i^", "n">>,  \* gu^naydi^n
         <<"i", "y", "i", " ", "g", "u^", "n", "l", "e", "r">>, <<"m", "e", "r", "a", "b", "a">>,  \* iyi gu^nler | meraba
         <<"m", "e", "r", "h", "a", "b", "a">>, <<"m", "e", "r", "h", "a", "b", "a", "l", "a", "r">>,  \* merhaba | merhabalar
         <<"s", "e", "l", "a", "m">>, <<"s", "e", "l", "a", "m", "l", "a", "r">>},  \* selam | selamlar
     ENGLISH_GREETINGS |->
        {<<"g", "o", "o", "d", " ", "d", "a", "y">>,  \* good day
         <<"g", "o", "o", "d", " ", "m", "o", "r", "n", "i", "n", "g">>,  \* good morning
         <<"g", "r", "e", "e", "t", "i", "n", "g", "s">>, <<"h", "e", "l", "l", "o">>, <<"h", "e", "y">>,  \* greetings | hello | hey
         <<"h", "i">>}]  \* hi

\* A detector that looks for the phrases before the Turkish characters.
detect_from_text_phrases_first(text) ==
    LET text_lower == str_strip(str_lower(text))
        text_words == str_split(text_lower)
        turkish_score ==
            Cardinality(text_words \cap LanguageDetector.TURKISH_KEYWORDS) * 2
        english_score == Cardinality(text_words \cap LanguageDetector.ENGLISH_KEYWORDS)
    IN  IF Len(text) = 0 THEN "en"
    ELSE IF Len(text_lower) <= 3 /\ text_lower \in {<<"h", "i">>, <<"h", "e", "y">>}
    THEN "en"
    ELSE IF Len(text_lower) <= 3 /\ text_lower \in {<<"s", "e", "l", "a", "m">>, <<"m", "r", "b">>}
    THEN "tr"
    ELSE IF text_lower \in LanguageDetector.TURKISH_GREETINGS THEN "tr"
    ELSE IF text_lower \in LanguageDetector.ENGLISH_GREETINGS THEN "en"
    ELSE IF \E phrase \in LanguageDetector.ENGLISH_PHRASES : str_in(phrase, text_lower)
    THEN "en"
    ELSE IF \E phrase \in LanguageDetector.TURKISH_PHRASES : str_in(phrase, text_lower)
    THEN "tr"
    ELSE IF \E i \in 1..Len(text_lower) : text_lower[i] \in LanguageDetector.TURKISH_CHARS
    THEN "tr"
    ELSE IF turkish_score = 0 /\ english_score = 0 THEN "en"
    ELSE IF turkish_score > english_score THEN "tr"
    ELSE "en"

\* A detector whose Turkish keyword matches count once.
detect_from_text_unweighted(text) ==
    LET text_lower == str_strip(str_lower(text))
        text_words == str_split(text_lower)
        turkish_score ==
            Cardinality(text_words \cap LanguageDetector.TURKISH_KEYWORDS)
        english_score == Cardinality(text_words \cap LanguageDetector.ENGLISH_KEYWORDS)
    IN  IF Len(text) = 0 THEN "en"
    ELSE IF Len(text_lower) <= 3 /\ text_lower \in {<<"h", "i">>, <<"h", "e", "y">>}
    THEN "en"
    ELSE IF Len(text_lower) <= 3 /\ text_lower \in {<<"s", "e", "l", "a", "m">>, <<"m", "r", "b">>}
    THEN "tr"
    ELSE IF text_lower \in LanguageDetector.TURKISH_GREETINGS THEN "tr"
    ELSE IF text_lower \in LanguageDetector.ENGLISH_GREETINGS THEN "en"
    ELSE IF \E i \in 1..Len(text_lower) : text_lower[i] \in LanguageDetector.TURKISH_CHARS
    THEN "tr"
    ELSE IF \E phrase \in LanguageDetector.ENGLISH_PHRASES : str_in(phrase, text_lower)
    THEN "en"
    ELSE IF \E phrase \in LanguageDetector.TURKISH_PHRASES : str_in(phrase, text_lower)
    THEN "tr"
    ELSE IF turkish_score = 0 /\ english_score = 0 THEN "en"
    ELSE IF turkish_score > english_score THEN "tr"
    ELSE "en"

\* LanguageDetector.detect_from_text: the first rule that matches decides.
detect_from_text(text) ==
    LET text_lower == str_strip(str_lower(text))
        text_words == str_split(text_lower)
        turkish_score ==
            Cardinality(text_words \cap LanguageDetector.TURKISH_KEYWORDS) * 2
        english_score == Cardinality(text_words \cap LanguageDetector.ENGLISH_KEYWORDS)
    IN  IF Len(text) = 0 THEN "en"
    ELSE IF Len(text_lower) <= 3 /\ text_lower \in {<<"h", "i">>, <<"h", "e", "y">>}
    THEN "en"
    ELSE IF Len(text_lower) <= 3 /\ text_lower \in {<<"s", "e", "l", "a", "m">>, <<"m", "r", "b">>}
    THEN "tr"
    ELSE IF text_lower \in LanguageDetector.TURKISH_GREETINGS THEN "tr"
    ELSE IF text_lower \in LanguageDetector.ENGLISH_GREETINGS THEN "en"
    ELSE IF \E i \in 1..Len(text_lower) : text_lower[i] \in LanguageDetector.TURKISH_CHARS
    THEN "tr"
    ELSE IF \E phrase \in LanguageDetector.ENGLISH_PHRASES : str_in(phrase, text_lower)
    THEN "en"
    ELSE IF \E phrase \in LanguageDetector.TURKISH_PHRASES : str_in(phrase, text_lower)
    THEN "tr"
    ELSE IF turkish_score = 0 /\ english_score = 0 THEN "en"
    ELSE IF turkish_score > english_score THEN "tr"
    ELSE "en"

\* A detector that reads the first user message of the history.
detect_from_messages_first_user(history) ==
    LET users == {i \in 1..Len(history) : history[i].role = "user"}
    IN  IF users = {} THEN "en"
        ELSE detect_from_text(history[CHOOSE i \in users : \A j \in users : i <= j].content)

\* LanguageDetector.detect_from_messages: the first user message met from
\* the end of the history.
detect_from_messages(history) ==
    LET users == {i \in 1..Len(history) : history[i].role = "user"}
    IN  IF Len(history) = 0 THEN "en"
        ELSE IF users = {} THEN "en"
        ELSE detect_from_text(history[CHOOSE i \in users : \A j \in users : j <= i].content)

MaxHistory == 3       \* messages of a history handed to detect_from_messages

\* The detector is called on one text after another; seq tells a call from
\* the call before it.
DetectTextCall ==
    /\ probe.fn \in {"none", "detect_from_text"}
    /\ \E text \in
              {<<>>,  \* 
               <<"h", "i">>,  \* hi
               <<"h", "e", "y">>,  \* hey
               <<"H", "i">>,  \* Hi
               <<"m", "r", "b">>,  \* mrb
               <<"s", "e", "l", "a", "m">>,  \* selam
               <<"M", "e", "r", "h", "a", "b", "a">>,  \* Merhaba
               <<"h", "e", "l", "l", "o">>,  \* hello
               <<"g", "o", "o", "d", " ", "m", "o", "r", "n", "i", "n", "g">>,  \* good morning
               <<"g", "u^", "n", "a", "y", "d", "i^", "n">>,  \* gu^naydi^n
               <<"G", "U^", "N", "A", "Y", "D", "I", "N">>,  \* GU^NAYDIN
               <<"s^">>,  \* s^
               <<"c^", "o", "k">>,  \* c^ok
               <<"i^", "l", "i^", "k">>,  \* i^li^k
               <<"i", " ", "w", "a", "n", "t", " ", "s^", "e", "k", "e", "r">>,  \* i want s^eker
               <<"c", "a", "n", " ", "y", "o", "u", " ", "g", "o^", "s", "t", "e", "r">>,  \* can you go^ster
               <<"t", "h", "e", " ", "a", "n", "d", " ", "w", "i", "t", "h", " ", "i", "c^", "i", "n">>,  \* the and with ic^in
               <<"h", "e", "l", "l", "o", " ", "d", "u^", "n", "y", "a">>,  \* hello du^nya
               <<"i", " ", "w", "a", "n", "t", " ", "p", "r", "o", "j", "e">>,  \* i want proje
               <<"b", "i", "l", "m", "i", "y", "o", "r", "u", "m">>,  \* bilmiyorum
               <<"e", "d", "e", "r", " ", "m", "i", "s", "i", "n", " ", "t", "h", "e", " ", "a", "n", "d", " ", "w", "i", "t", "h", " ", "f", "o", "r">>,  \* eder misin the and with for
               <<"p", "r", "o", "j", "e", " ", "t", "h", "e", " ", "a", "n", "d">>,  \* proje the and
               <<"p", "r", "o", "j", "e", " ", "t", "h", "e">>,  \* proje the
               <<"b", "i", "r", " ", "b", "i", "r", " ", "t", "h", "e", " ", "a", "n", "d">>,  \* bir bir the and
               <<"t", "h", "e", " ", "p", "r", "o", "j", "e", " ", "b", "i", "r", " ", "a", "n", "d", " ", "w", "i", "t", "h">>,  \* the proje bir and with
               <<"x", "y", "z">>,  \* xyz
               <<"w", "h", "a", "t", " ", "a", "b", "o", "u", "t", " ", "t", "h", "i", "s">>,  \* what about this
               <<" ", " ", "p", "r", "o", "j", "e", " ", " ">>,  \*   proje  
               <<"P", "r", "o", "j", "e", " ", "T", "h", "e">>,  \* Proje The
               <<"n", "e", " ", "z", "a", "m", "a", "n">>,  \* ne zaman
               <<"o">>} :  \* o
          probe' = [fn |-> "detect_from_text", text |-> text,
                    seq |-> IF probe.fn = "none" THEN 0 ELSE 1 - probe.seq,
                    ret |-> detect_from_text(text)]
    /\ UNCHANGED <<cacheVars, toolVars, reportVars>>

DetectMessagesCall ==
    /\ probe.fn \in {"none", "detect_from_messages"}
    /\ \E n \in 0..MaxHistory :
       \E history \in [1..n -> [role : {"user", "assistant"},
                                 content : {<<"m", "e", "r", "h", "a", "b", "a">>, <<"h", "e", "l", "l", "o">>}]] :
          probe' = [fn |-> "detect_from_messages", messages |-> history,
                    ret |-> detect_from_messages(history)]
    /\ UNCHANGED <<cacheVars, toolVars, reportVars>>


\* ---- QueryClassifier and GeminiEmbeddingRAG._determine_top_k -----------------
QueryClassifier ==
    [SOCIAL_KEYWORDS |->
        {<<"a", "r", "t", "i", "c", "l", "e">>, <<"l", "i", "n", "k", "e", "d", "i", "n">>,  \* article | linkedin
         <<"m", "a", "k", "a", "l", "e">>, <<"m", "e", "d", "i", "u", "m">>,  \* makale | medium
         <<"p", "a", "y", "l", "a", "s^", "i^", "m">>, <<"p", "o", "s", "t">>,  \* paylas^i^m | post
         <<"s", "o", "c", "i", "a", "l", " ", "m", "e", "d", "i", "a">>,  \* social media
         <<"s", "o", "s", "y", "a", "l", " ", "m", "e", "d", "y", "a">>, <<"y", "a", "z", "i^">>},  \* sosyal medya | yazi^
     JOB_KEYWORDS |->
        {<<"a", "c^", "i^", "k", " ", "p", "o", "z", "i", "s", "y", "o", "n">>,  \* ac^i^k pozisyon
         <<"c", "a", "r", "e", "e", "r">>, <<"e", "m", "p", "l", "o", "y", "m", "e", "n", "t">>,  \* career | employment
         <<"h", "i", "r", "i", "n", "g">>, <<"i", "s", "t", "i", "h", "d", "a", "m">>, <<"i", "s^">>,  \* hiring | istihdam | is^
         <<"i", "s^", "e", " ", "a", "l", "i^", "m">>, <<"j", "o", "b">>,  \* is^e ali^m | job
         <<"k", "a", "r", "i", "y", "e", "r">>, <<"o", "p", "e", "n", "i", "n", "g">>,  \* kariyer | opening
         <<"p", "o", "s", "i", "t", "i", "o", "n">>, <<"p", "o", "z", "i", "s", "y", "o", "n">>,  \* position | pozisyon
         <<"r", "e", "c", "r", "u", "i", "t">>, <<"r", "o", "l", "e">>,  \* recruit | role
         <<"v", "a", "c", "a", "n", "c", "y">>},  \* vacancy
     PROJECT_KEYWORDS |->
        {<<"b", "u", "i", "l", "t">>, <<"c", "r", "e", "a", "t", "e", "d">>,  \* built | created
         <<"d", "e", "v", "e", "l", "o", "p", "e", "d">>,  \* developed
         <<"g", "e", "l", "i", "s^", "t", "i", "r", "d", "i", "g^", "i">>,  \* gelis^tirdig^i
         <<"p", "o", "r", "t", "f", "o", "l", "i", "o">>, <<"p", "r", "o", "j", "e">>,  \* portfolio | proje
         <<"p", "r", "o", "j", "e", "c", "t">>, <<"y", "a", "p", "t", "i^", "g^", "i^">>},  \* project | yapti^g^i^
     EXPERIENCE_KEYWORDS |->
        {<<"d", "e", "n", "e", "y", "i", "m">>,  \* deneyim
         <<"e", "m", "p", "l", "o", "y", "m", "e", "n", "t", " ", "h", "i", "s", "t", "o", "r", "y">>,  \* employment history
         <<"e", "x", "p", "e", "r", "i", "e", "n", "c", "e">>, <<"i", "s^">>,  \* experience | is^
         <<"j", "o", "b", " ", "h", "i", "s", "t", "o", "r", "y">>, <<"w", "o", "r", "k">>,  \* job history | work
         <<"w", "o", "r", "k", "e", "d">>, <<"c^", "a", "l", "i^", "s^">>},  \* worked | c^ali^s^
     EDUCATION_KEYWORDS |->
        {<<"b", "a", "c", "h", "e", "l", "o", "r">>, <<"d", "e", "g", "r", "e", "e">>,  \* bachelor | degree
         <<"d", "i", "p", "l", "o", "m", "a">>, <<"e", "d", "u", "c", "a", "t", "i", "o", "n">>,  \* diploma | education
         <<"e", "r", "a", "s", "m", "u", "s">>, <<"e", "x", "c", "h", "a", "n", "g", "e">>,  \* erasmus | exchange
         <<"e", "g^", "i", "t", "i", "m">>, <<"g", "r", "a", "d", "u", "a", "t", "e">>,  \* eg^itim | graduate
         <<"l", "i", "s", "a", "n", "s">>, <<"m", "e", "z", "u", "n">>, <<"o", "k", "u", "l">>,  \* lisans | mezun | okul
         <<"s", "c", "h", "o", "o", "l">>, <<"s", "t", "u", "d", "e", "n", "t">>,  \* school | student
         <<"u", "n", "i", "v", "e", "r", "s", "i", "t", "y">>, <<"o^", "g^", "r", "e", "n", "c", "i">>,  \* university | o^g^renci
         <<"u^", "n", "i", "v", "e", "r", "s", "i", "t", "e">>},  \* u^niversite
     CONTACT_KEYWORDS |->
        {<<"c", "o", "n", "t", "a", "c", "t">>, <<"e", "-", "p", "o", "s", "t", "a">>,  \* contact | e-posta
         <<"e", "m", "a", "i", "l">>, <<"g", "e", "t", " ", "i", "n", " ", "t", "o", "u", "c", "h">>,  \* email | get in touch
         <<"i", "l", "e", "t", "i", "s^", "i", "m">>, <<"m", "a", "i", "l">>, <<"m", "e", "s", "a", "j">>,  \* iletis^im | mail | mesaj
         <<"m", "e", "s", "s", "a", "g", "e">>, <<"r", "e", "a", "c", "h">>, <<"u", "l", "a", "s^">>}]  \* message | reach | ulas^

\* QueryClassifier.classify: any(kw in query_lower for kw in ...) per flag
classify(query) ==
    LET any(keywords) == \E kw \in keywords : str_in(kw, str_lower(query))
    IN  [is_social_query |-> any(QueryClassifier.SOCIAL_KEYWORDS),
         is_job_query |-> any(QueryClassifier.JOB_KEYWORDS),
         is_project_query |-> any(QueryClassifier.PROJECT_KEYWORDS),
         is_experience_query |-> any(QueryClassifier.EXPERIENCE_KEYWORDS),
         is_education_query |-> any(QueryClassifier.EDUCATION_KEYWORDS),
         is_contact_query |-> any(QueryClassifier.CONTACT_KEYWORDS)]

\* A breadth that tests the project and experience flags first.
determine_top_k_project_first(query_type) ==
    IF query_type.is_project_query \/ query_type.is_experience_query THEN PROJECT_TOP_K
    ELSE IF query_type.is_education_query THEN EDUCATION_TOP_K
    ELSE DEFAULT_TOP_K

determine_top_k(query_type) ==
    IF query_type.is_education_query THEN EDUCATION_TOP_K
    ELSE IF query_type.is_project_query \/ query_type.is_experience_query THEN PROJECT_TOP_K
    ELSE DEFAULT_TOP_K

\* The breadth of one turn after another: classify, then _determine_top_k.
TopKCall ==
    /\ probe.fn \in {"none", "_determine_top_k"}
    /\ \E query \in
              {<<"h", "e", "l", "l", "o">>,  \* hello
               <<"l", "i", "n", "k", "e", "d", "i", "n", " ", "p", "o", "s", "t">>,  \* linkedin post
               <<"c", "o", "n", "t", "a", "c", "t", " ", "e", "m", "a", "i", "l">>,  \* contact email
               <<"j", "o", "b", " ", "p", "o", "s", "i", "t", "i", "o", "n">>,  \* job position
               <<"T", "e", "l", "l", " ", "m", "e", " ", "a", "b", "o", "u", "t", " ", "h", "i", "s", " ", "e", "d", "u", "c", "a", "t", "i", "o", "n">>,  \* Tell me about his education
               <<"s", "e", "n", "d", " ", "a", " ", "m", "e", "s", "s", "a", "g", "e", " ", "a", "b", "o", "u", "t", " ", "h", "i", "s", " ", "d", "e", "g", "r", "e", "e">>,  \* send a message about his degree
               <<"u", "n", "i", "v", "e", "r", "s", "i", "t", "y", " ", "p", "r", "o", "j", "e", "c", "t", "s">>,  \* university projects
               <<"p", "o", "r", "t", "f", "o", "l", "i", "o">>,  \* portfolio
               <<"w", "o", "r", "k", " ", "e", "x", "p", "e", "r", "i", "e", "n", "c", "e">>,  \* work experience
               <<"i", "s^">>,  \* is^
               <<"a", "r", "t", "i", "c", "l", "e", " ", "o", "n", " ", "h", "i", "s", " ", "p", "r", "o", "j", "e", "c", "t">>,  \* article on his project
               <<"c", "a", "r", "e", "e", "r", " ", "a", "f", "t", "e", "r", " ", "g", "r", "a", "d", "u", "a", "t", "e", " ", "s", "c", "h", "o", "o", "l", " ", "a", "n", "d", " ", "w", "o", "r", "k">>,  \* career after graduate school and work
               <<"p", "r", "o", "j", "e", " ", "v", "e", " ", "e", "g^", "i", "t", "i", "m">>} :  \* proje ve eg^itim
          probe' = [fn |-> "_determine_top_k", query |-> query,
                    query_type |-> classify(query),
                    ret |-> determine_top_k(classify(query))]
    /\ UNCHANGED <<cacheVars, toolVars, reportVars>>

\* ---- GeminiEmbeddingRAG.json_to_chunks, section by section --------------------
\* The resume is given by what decides the number of chunks: whether each
\* dict-valued section is non-empty and how many items each list holds. A
\* chunk is named by its section, its kind and the item it was built from.
MaxItems == 2         \* items of a list-valued section of the resume

json_to_chunks_by_section(data) ==
    LET single(section, present) ==
            IF present THEN <<[section |-> section, kind |-> "single", item |-> 0]>>
            ELSE <<>>
        items(section) ==
            [i \in 1..data[section] |-> [section |-> section, kind |-> "item", item |-> i]]
        summary(section) ==
            IF data[section] > 0
            THEN <<[section |-> section, kind |-> "summary", item |-> 0]>>
            ELSE <<>>
    IN  single("basic_info", TRUE)
        \o single("links", data.links)
        \o items("education") \o summary("education")
        \o items("experience") \o summary("experience")
        \o single("skills", data.skills)
        \o items("projects") \o summary("projects")
        \o items("awards")
        \o single("languages", data.languages)
        \o items("organizations")
        \o single("references", data.references > 0)

ChunkCall ==
    /\ probe = NoProbe
    /\ \E data \in [links : BOOLEAN, skills : BOOLEAN, languages : BOOLEAN,
                    education : 0..MaxItems, experience : 0..MaxItems,
                    projects : 0..MaxItems, awards : 0..MaxItems,
                    organizations : 0..MaxItems, references : 0..MaxItems] :
          probe' = [fn |-> "json_to_chunks", data |-> data,
                    ret |-> json_to_chunks_by_section(data)]
    /\ UNCHANGED <<cacheVars, toolVars, reportVars>>

\* ---- ToolDefinitions.execute_tool called directly --------------------------
\* Every tool name and argument dict of ToolCalls, every behaviour of the
\* collaborators, with and without an analyzer, on a session that holds a
\* report of an earlier analysis or none.
ExecuteToolCall ==
    /\ probe = NoProbe
    /\ \E call \in ToolCalls, env \in Envs, analyzer \in {0, 1}, stored \in BOOLEAN :
          LET S == [CurSession EXCEPT !.report_store =
                       IF stored THEN [present |-> TRUE, partial |-> FALSE,
                                       language |-> "en"]
                       ELSE NoReport]
              r == execute_tool(S, call.name, call.args, env, analyzer)
          IN  probe' = [fn |-> "execute_tool", tool_name |-> call.name,
                        tool_args |-> call.args, env |-> env,
                        analyzer |-> analyzer, stored |-> stored,
                        ret |-> [success |-> r.success, message |-> r.message,
                                 raised |-> r.raised],
                        renders |-> r.S.renders,
                        pdf_store |-> r.S.pdf_store,
                        report_store |-> r.S.report_store]
    /\ UNCHANGED <<cacheVars, toolVars, reportVars>>

\* ---- BugReportManager._prepare_chat_history ---------------------------------
\* A message content is a string, given by the message it came from, its
\* length and whether it ends in the three dots put there by the cut.
HISTORY_MESSAGES == 10       \* messages[-10:]
CONTENT_LIMIT == 500         \* len(content) > 500
CONTENT_KEPT == 497          \* content[:497]
MaxTranscript == 12          \* messages of a transcript handed to the snapshot

\* The snapshot built from the first messages instead of the last ones.
prepare_chat_history_first(history) ==
    LET recent_messages == IF Len(history) > HISTORY_MESSAGES
                           THEN SubSeq(history, 1, HISTORY_MESSAGES)
                           ELSE history
        cut(content) ==
            IF content.len > CONTENT_LIMIT
            THEN [content EXCEPT !.len = CONTENT_KEPT + Len(<<".", ".", ".">>),
                                 !.dots = TRUE]
            ELSE content
    IN  [messages |-> history,
         ret |-> [i \in 1..Len(recent_messages) |->
                    [role |-> recent_messages[i].role,
                     content |-> cut(recent_messages[i].content)]]]

\* messages is the list after the call (the method builds new dicts and
\* assigns to none of the old ones), ret the list returned, without the
\* timestamp each entry gets.
prepare_chat_history(history) ==
    LET recent_messages == IF Len(history) > HISTORY_MESSAGES
                           THEN SubSeq(history, Len(history) - HISTORY_MESSAGES + 1,
                                       Len(history))
                           ELSE history
        cut(content) ==
            IF content.len > CONTENT_LIMIT
            THEN [content EXCEPT !.len = CONTENT_KEPT + Len(<<".", ".", ".">>),
                                 !.dots = TRUE]
            ELSE content
    IN  [messages |-> history,
         ret |-> [i \in 1..Len(recent_messages) |->
                    [role |-> recent_messages[i].role,
                     content |-> cut(recent_messages[i].content)]]]

\* submit_bug_report -> _prepare_chat_history(st.session_state.messages), for
\* transcripts of alternating roles in which the messages at two places
\* have a content around the limit.
PrepareHistoryCall ==
    /\ probe = NoProbe
    /\ \E n \in 0..MaxTranscript, p \in 1..MaxTranscript, q \in 1..MaxTranscript,
          long \in {CONTENT_KEPT, CONTENT_LIMIT, CONTENT_LIMIT + 1, 2 * CONTENT_LIMIT} :
          LET history == [i \in 1..n |->
                            [role |-> IF i % 2 = 1 THEN "user" ELSE "assistant",
                             content |-> [of |-> i,
                                          len |-> IF i \in {p, q} THEN long ELSE i,
                                          dots |-> FALSE]]]
              r == prepare_chat_history(history)
          IN  probe' = [fn |-> "_prepare_chat_history", history |-> history,
                        messages |-> r.messages, ret |-> r.ret]
    /\ UNCHANGED <<cacheVars, toolVars, reportVars>>

\* ---- the specification of the direct calls ---------------------------------
NextHelpers ==
    \/ SearchCall
    \/ BoostCall
    \/ DetectTextCall
    \/ DetectMessagesCall
    \/ TopKCall
    \/ ChunkCall
    \/ ExecuteToolCall
    \/ PrepareHistoryCall
    \/ Return

SpecHelpers == Init /\ [][NextHelpers]_vars

\* ----------------------------------------------------------------------
\*  Claims on the ranking of search_similar_chunks
\* ----------------------------------------------------------------------
SearchReturned == probe.fn = "search_similar_chunks"
\* the call got past both early returns and scored the rows
Ranked ==
    /\ SearchReturned
    /\ probe.configured
    /\ ~probe.cv_embeddings.none
    /\ Len(probe.cv_embeddings.rows) > 0
    /\ Len(probe.query_embedding) > 0
ZeroNorm(v) == \A i \in 1..Len(v) : v[i] = 0
\* hundredths of the boost of row k (0-based) for the query of the call
BoostOf(k) == calculate_keyword_boost(probe.query, probe.cv_chunks[k + 1])
FinalScore(k) ==
    similarity(probe.query_embedding[1], probe.cv_embeddings.rows[k + 1]) + BoostOf(k)
\* entry of score a and index i ranks before entry of score b and index j
RanksBefore(a, i, b, j) == a > b \/ (a = b /\ i < j)

\* C21: the result lists chunks by descending final score (similarity plus
\* boost), chunks of equal final score in their insertion order, and it is
\* exactly the first top_k entries of that order, all of them when the
\* corpus has fewer than top_k rows.
C21_SortedStableTopK ==
    Ranked =>
        LET ret == probe.ret
            n == Len(probe.cv_embeddings.rows)
            returned == {ret[i].index : i \in 1..Len(ret)}
        IN  /\ Len(ret) = IF probe.top_k < n THEN probe.top_k ELSE n
            /\ \A i \in 1..Len(ret) :
                    /\ ret[i].index \in 0..(n - 1)
                    /\ ret[i].text = probe.cv_chunks[ret[i].index + 1]
                    /\ ret[i].similarity = FinalScore(ret[i].index)
            /\ \A i, j \in 1..Len(ret) :
                    i < j => RanksBefore(ret[i].similarity, ret[i].index,
                                         ret[j].similarity, ret[j].index)
            /\ \A k \in (0..(n - 1)) \ returned : \A i \in 1..Len(ret) :
                    RanksBefore(ret[i].similarity, ret[i].index, FinalScore(k), k)

\* a truncated result that holds a tie and two different scores
C21_Witness ==
    /\ Ranked
    /\ Len(probe.cv_embeddings.rows) > probe.top_k
    /\ \E i, j \in 1..Len(probe.ret) :
            i < j /\ probe.ret[i].similarity = probe.ret[j].similarity
    /\ \E i, j \in 1..Len(probe.ret) :
            probe.ret[i].similarity > probe.ret[j].similarity
    /\ \E k \in 0..(Len(probe.cv_embeddings.rows) - 1) :
            /\ \A i \in 1..Len(probe.ret) : probe.ret[i].index # k
            /\ FinalScore(k) = probe.ret[Len(probe.ret)].similarity

\* the triggers of keyword_mappings that count for a query and a chunk
Triggers(query, chunk) ==
    {i \in 1..Len(keyword_mappings) :
        /\ str_in(keyword_mappings[i].key, str_lower(query))
        /\ \E k \in 1..Len(keyword_mappings[i].keywords) :
                str_in(keyword_mappings[i].keywords[k], str_lower(chunk))}
BoostReturned == probe.fn = "_calculate_keyword_boost"
C22_BoostIsCount ==
    BoostReturned =>
        /\ probe.ret = KEYWORD_BOOST_SCORE * Cardinality(Triggers(probe.query, probe.chunk))
        /\ probe.ret >= 0

\* C22: the boost is the increment (0.2) times the number of trigger
\* keywords that occur in the lowercased query and have a synonym in the
\* lowercased chunk: never negative, one increment per trigger, no cap; for
\* one chunk, a query matching more triggers never gets a smaller boost.
C22_BoostAdditive ==
    /\ []C22_BoostIsCount
    /\ [][(/\ BoostReturned
           /\ probe'.fn = "_calculate_keyword_boost"
           /\ probe'.chunk = probe.chunk
           /\ Triggers(probe.query, probe.chunk) \subseteq Triggers(probe'.query, probe'.chunk))
          => probe'.ret >= probe.ret]_vars

\* three triggers count for a chunk that holds two synonyms of one of them
C22_Witness ==
    /\ BoostReturned
    /\ Cardinality(Triggers(probe.query, probe.chunk)) >= 3
    /\ probe.ret = 3 * KEYWORD_BOOST_SCORE
    /\ \E i \in Triggers(probe.query, probe.chunk) :
          Cardinality({k \in 1..Len(keyword_mappings[i].keywords) :
              str_in(keyword_mappings[i].keywords[k], str_lower(probe.chunk))}) >= 2

\* C23: no similarity is the result of a division by zero: a pair whose
\* query vector or chunk vector has norm 0 scores 0 before the boost, and
\* the call still returns the ranked rows.
C23_ZeroNormScoresZero ==
    Ranked =>
        /\ Len(probe.ret) = IF probe.top_k < Len(probe.cv_embeddings.rows)
                            THEN probe.top_k ELSE Len(probe.cv_embeddings.rows)
        /\ \A i \in 1..Len(probe.ret) :
              (\/ ZeroNorm(probe.query_embedding[1])
               \/ ZeroNorm(probe.cv_embeddings.rows[probe.ret[i].index + 1]))
              => probe.ret[i].similarity = BoostOf(probe.ret[i].index)

\* a zero row ranked behind a row that scored above its boost
C23_Witness ==
    /\ Ranked
    /\ ~ZeroNorm(probe.query_embedding[1])
    /\ \E i, j \in 1..Len(probe.ret) :
          /\ i < j
          /\ ZeroNorm(probe.cv_embeddings.rows[probe.ret[j].index + 1])
          /\ ~ZeroNorm(probe.cv_embeddings.rows[probe.ret[i].index + 1])
          /\ probe.ret[i].similarity > BoostOf(probe.ret[i].index)
          /\ probe.ret[j].similarity = BoostOf(probe.ret[j].index)

NothingToRank ==
    /\ SearchReturned
    /\ \/ ~probe.configured
       \/ probe.cv_embeddings.none
       \/ Len(probe.cv_embeddings.rows) = 0
       \/ Len(probe.query_embedding) = 0

\* C24: without embeddings (instance not configured, cv_embeddings None or
\* empty) or without a query embedding the call returns one synthetic
\* entry of similarity 0.0 and index -1, and nothing else.
C24_SyntheticEntry ==
    NothingToRank =>
        /\ Len(probe.ret) = 1
        /\ probe.ret[1].similarity = 0
        /\ probe.ret[1].index = -1
        /\ probe.ret[1].text \in {<<"embeddings_not_available">>, <<"query_process_failed">>}

\* the query of a configured instance with a loaded corpus was not embedded
C24_Witness ==
    /\ NothingToRank
    /\ probe.configured
    /\ Len(probe.cv_embeddings.rows) > 1
    /\ probe.ret[1].text = <<"query_process_failed">>

\* ----------------------------------------------------------------------
\*  Claims on the language detector
\* ----------------------------------------------------------------------
DetectReturned == probe.fn = "detect_from_text"
HasTurkishChar(text) == \E i \in 1..Len(text) : text[i] \in LanguageDetector.TURKISH_CHARS
HasPhrase(text, phrases) == \E phrase \in phrases : str_in(phrase, str_lower(text))
C25_DiacriticWins == DetectReturned /\ HasTurkishChar(probe.text) => probe.ret = "tr"

\* C25: a message that holds one of the letters c-cedilla, soft g, dotless
\* i, o-umlaut, s-cedilla, u-umlaut is Turkish, whatever its length, its
\* greeting or phrase matches and its keyword scores; and the detector is
\* pure: called again on the same text it gives the same language.
C25_DiacriticIsTurkish ==
    /\ []C25_DiacriticWins
    /\ [][(/\ DetectReturned
           /\ probe'.fn = "detect_from_text"
           /\ probe'.text = probe.text) => probe'.ret = probe.ret]_vars

\* a second call in a row, on a text with an English phrase and a diacritic
C25_Witness ==
    /\ DetectReturned
    /\ probe.seq = 1
    /\ HasTurkishChar(probe.text)
    /\ HasPhrase(probe.text, LanguageDetector.ENGLISH_PHRASES)
    /\ probe.ret = "tr"

\* the rules that come before the keyword scores
RuleFires(text) ==
    LET t == str_strip(str_lower(text))
    IN  \/ Len(t) <= 3 /\ t \in {<<"h", "i">>, <<"h", "e", "y">>, <<"s", "e", "l", "a", "m">>, <<"m", "r", "b">>}
        \/ t \in LanguageDetector.TURKISH_GREETINGS \cup LanguageDetector.ENGLISH_GREETINGS
        \/ HasTurkishChar(t)
        \/ HasPhrase(t, LanguageDetector.ENGLISH_PHRASES \cup LanguageDetector.TURKISH_PHRASES)
\* distinct words of the text that are in the keyword table
Matches(text, keywords) ==
    Cardinality(str_split(str_strip(str_lower(text))) \cap keywords)

\* C26: when no greeting, diacritic or phrase rule fires, the text is
\* Turkish exactly when twice its distinct Turkish keyword matches exceed
\* its distinct English keyword matches; a tie and no match give English.
C26_KeywordScore ==
    DetectReturned /\ ~RuleFires(probe.text) =>
        /\ probe.ret \in {"tr", "en"}
        /\ probe.ret = "tr" <=>
              2 * Matches(probe.text, LanguageDetector.TURKISH_KEYWORDS)
                  > Matches(probe.text, LanguageDetector.ENGLISH_KEYWORDS)

\* a tie of one repeated Turkish keyword against two English ones
C26_Witness ==
    /\ DetectReturned
    /\ ~RuleFires(probe.text)
    /\ Matches(probe.text, LanguageDetector.TURKISH_KEYWORDS) = 1
    /\ Matches(probe.text, LanguageDetector.ENGLISH_KEYWORDS) = 2
    /\ Cardinality({i \in 1..Len(probe.text) : probe.text[i] = " "}) = 3
    /\ probe.ret = "en"

MessagesReturned == probe.fn = "detect_from_messages"
Users(history) == {i \in 1..Len(history) : history[i].role = "user"}
LastUser(history) == history[CHOOSE i \in Users(history) : \A j \in Users(history) : j <= i]
C27_NoUserIsEnglish == MessagesReturned /\ Users(probe.messages) = {} => probe.ret = "en"

\* C27: the language of a history depends on its most recent user message
\* alone: two histories with the same last user content get the same
\* language, whatever else they hold; without a user message it is English.
C27_LastUserDecides ==
    /\ []C27_NoUserIsEnglish
    /\ [][(/\ MessagesReturned
           /\ probe'.fn = "detect_from_messages"
           /\ Users(probe.messages) # {}
           /\ Users(probe'.messages) # {}
           /\ LastUser(probe'.messages).content = LastUser(probe.messages).content)
          => probe'.ret = probe.ret]_vars

\* an English user message, then a Turkish one, then an English answer
C27_Witness ==
    /\ MessagesReturned
    /\ Len(probe.messages) = 3
    /\ probe.messages[1].role = "user"
    /\ detect_from_text(probe.messages[1].content) = "en"
    /\ probe.messages[2].role = "user"
    /\ detect_from_text(probe.messages[2].content) = "tr"
    /\ probe.messages[3].role = "assistant"
    /\ detect_from_text(probe.messages[3].content) = "en"
    /\ probe.ret = "tr"

\* ----------------------------------------------------------------------
\*  Claim on the retrieval breadth
\* ----------------------------------------------------------------------
TopKReturned == probe.fn = "_determine_top_k"
C28_BreadthOfFlags ==
    TopKReturned =>
        probe.ret = IF probe.query_type.is_education_query THEN 8
                    ELSE IF \/ probe.query_type.is_project_query
                            \/ probe.query_type.is_experience_query THEN 6
                    ELSE 4
BreadthFlags(query_type) ==
    <<query_type.is_education_query, query_type.is_project_query,
      query_type.is_experience_query>>

\* C28: the breadth is 8 for a query classified as education, whether or
\* not it is project or experience too, else 6 for project or experience,
\* else 4; two queries that agree on these three flags get the same
\* breadth whatever their social, job and contact flags are.
C28_BreadthByClassification ==
    /\ []C28_BreadthOfFlags
    /\ [][(/\ TopKReturned
           /\ probe'.fn = "_determine_top_k"
           /\ BreadthFlags(probe'.query_type) = BreadthFlags(probe.query_type))
          => probe'.ret = probe.ret]_vars

\* an education query that is a job and an experience query as well
C28_Witness ==
    /\ TopKReturned
    /\ probe.query_type.is_education_query
    /\ probe.query_type.is_experience_query
    /\ probe.query_type.is_job_query
    /\ probe.ret = 8

\* ----------------------------------------------------------------------
\*  Claim on the chunks of a resume
\* ----------------------------------------------------------------------
ChunksOf(section) ==
    Cardinality({i \in 1..Len(probe.ret) : probe.ret[i].section = section})

\* C29: each of the list-valued sections education, experience, projects,
\* organizations and awards that holds n > 0 items gives n + 1 chunks: one
\* per item and one aggregate summary.
C29_ItemsPlusSummary ==
    probe.fn = "json_to_chunks" =>
        \A section \in {"education", "experience", "projects", "organizations", "awards"} :
            probe.data[section] > 0 => ChunksOf(section) = probe.data[section] + 1

\* ----------------------------------------------------------------------
\*  Claim on clear_cache
\* ----------------------------------------------------------------------
Exists(f) == CurDisk[f].state # "absent"

\* C30: clear_cache removes each of the three artifacts on its own: a
\* removal that fails leaves that file and is only warned about, the other
\* files are removed all the same; after a clear in which no removal failed
\* none of the three exists and is_cache_valid is false for every path.
C30_ClearBestEffort ==
    last.op = "clear" =>
        /\ \A f \in CacheFiles : Exists(f) <=> f \in last.remove_failed
        /\ last.remove_failed = {} =>
              \A p \in Paths, m \in Models : ~is_cache_valid(CurDisk, p, m)

\* the removal of the embeddings failed, the two later files are gone
C30_Witness ==
    /\ last.op = "clear"
    /\ last.remove_failed = {"embeddings"}
    /\ ~Exists("chunks")
    /\ ~Exists("info")

\* ======================================================================
\*  Properties of the tool dispatcher and the transcript of a turn,
\*  checked under SpecTools
\* ======================================================================

\* C31: analyze_job_compatibility dispatched with a report_language that is
\* neither 'en' nor 'tr' (job description given, analyzer initialised,
\* pipeline answering well) runs the analysis in English instead of
\* failing: the call succeeds and the language stored for the PDF is 'en'.
C31_InvalidLanguageRunsEnglish ==
    (/\ Dispatched("analyze_job_compatibility")
     /\ "job_description" \in tool_obs.keys
     /\ ~tool_obs.jd_empty
     /\ tool_obs.lang \notin {"", "en", "tr"}
     /\ analyzer_cv # 0
     /\ tool_obs.pipeline = "ok")
    => /\ tool_obs.success
       /\ report_store.present
       /\ report_store.language = "en"

\* ----------------------------------------------------------------------
\*  Claim on the result of execute_tool, checked under SpecHelpers
\* ----------------------------------------------------------------------

\* C32: execute_tool returns a structured result (a boolean success and a
\* message) and lets no exception escape, for every tool name and argument
\* dict; an unknown tool name, a failing post aggregator, a failing PDF
\* renderer and a failing analyzer each give success = FALSE with a message.
C32_StructuredResult ==
    probe.fn = "execute_tool" =>
        /\ ~probe.ret.raised
        /\ probe.ret.success \in BOOLEAN
        /\ probe.ret.message # ""
        /\ probe.tool_name \notin {"prepare_email", "get_recent_posts",
                                   "generate_compatibility_pdf",
                                   "analyze_job_compatibility"}
              => ~probe.ret.success
        /\ (probe.tool_name = "get_recent_posts" /\ probe.env.posts = "raise")
              => ~probe.ret.success
        /\ (probe.tool_name = "generate_compatibility_pdf" /\ probe.env.pdf = "raise")
              => ~probe.ret.success /\ ~probe.pdf_store.present
        /\ (probe.tool_name = "analyze_job_compatibility"
              /\ (probe.env.report = "error" \/ probe.analyzer = 0))
              => ~probe.ret.success

\* The PDF renderer was reached and raised: a failure result came back.
C32_Witness ==
    /\ probe.fn = "execute_tool"
    /\ probe.tool_name = "generate_compatibility_pdf"
    /\ probe.stored
    /\ probe.env.pdf = "raise"
    /\ probe.renders = 1
    /\ probe.ret = [success |-> FALSE, message |-> "Error generating PDF",
                    raised |-> FALSE]

\* ----------------------------------------------------------------------
\*  Claim on the transcript snapshot of a bug report, checked under SpecHelpers
\* ----------------------------------------------------------------------

\* C33: the snapshot holds at most the last 10 messages of the transcript,
\* in their original order and with their roles; each content is at most
\* 500 characters long: a content of up to 500 characters is kept as it is,
\* a longer one is its first 497 characters followed by "..."; the
\* transcript itself is the same after the call.
C33_SnapshotBounded ==
    probe.fn = "_prepare_chat_history" =>
        LET history == probe.history
            ret == probe.ret
            skipped == Len(history) - Len(ret)
        IN  /\ Len(ret) = (IF Len(history) < 10 THEN Len(history) ELSE 10)
            /\ \A k \in 1..Len(ret) :
                  LET old == history[skipped + k]
                  IN  /\ ret[k].role = old.role
                      /\ ret[k].content.of = old.content.of
                      /\ ret[k].content.len <= 500
                      /\ IF old.content.len <= 500
                         THEN ret[k].content = old.content
                         ELSE /\ ret[k].content.len = 497 + 3
                              /\ ret[k].content.dots
            /\ probe.messages = history

\* A transcript of more than 10 messages whose last message is longer than
\* 500 characters and whose first message is left out of the snapshot.
C33_Witness ==
    /\ probe.fn = "_prepare_chat_history"
    /\ Len(probe.history) > 10
    /\ probe.history[Len(probe.history)].content.len > 500
    /\ Len(probe.ret) = 10
    /\ probe.ret[10].content.len = 500
    /\ probe.ret[10].content.dots
    /\ probe.ret[1].content.of = Len(probe.history) - 9

\* ======================================================================
\*  Properties of the analyzer's context retrieval, checked under SpecReport
\* ======================================================================

\* C34: the text of the synthetic entry (index -1) that an unavailable search
\* returns is never among the chunks of the context: the retrieval adds only
\* texts of the corpus to its pool, so that a retrieval whose searches are
\* all unavailable gathers nothing and the flat dump of the resume is used.
C34_SyntheticNeverContext ==
    job.context.source = "retrieval" =>
        SyntheticText \notin Range(job.context.chunks)

\* C38: every chunk the education-specific sweep returned is among the
\* chunks of the final context, also when the query-driven searches alone
\* gathered MAX_TOTAL_CHUNKS texts: the cap never discards an education chunk.
C38_EducationKept ==
    job.context.source = "retrieval" =>
        Range(job.context.education) \subseteq Range(job.context.chunks)

\* ======================================================================
\*  Properties of the transcript and of the tool calls of a turn, checked
\*  under SpecTools
\* ======================================================================

\* C35: the transcript is append-only and a turn resolves completely: every
\* step leaves the earlier messages as they were, a turn appends exactly one
\* user message followed by exactly one assistant message, and the sentinels
\* EMAIL_PREPARED_FOR_REVIEW and PDF_GENERATED are never stored as a message
\* (the localized text is stored in their place).
C35_TranscriptAppendOnly ==
    [][/\ Len(messages') >= Len(messages)
       /\ SubSeq(messages', 1, Len(messages)) = messages
       /\ \A i \in 1..Len(messages') :
             messages'[i] \notin {"EMAIL_PREPARED_FOR_REVIEW", "PDF_GENERATED"}
       /\ tool_obs'.op = "turn" =>
             /\ Len(messages') = Len(messages) + 2
             /\ messages'[Len(messages) + 1] = "user"
             /\ messages'[Len(messages) + 2] # "user"
             /\ (tool_obs'.response = "EMAIL_PREPARED_FOR_REVIEW")
                   <=> (messages'[Len(messages) + 2] = "email_prepared")
             /\ (tool_obs'.response = "PDF_GENERATED")
                   <=> (messages'[Len(messages) + 2] = "pdf_generated")]_vars

\* A later turn that ended in the e-mail sentinel: the localized notice was
\* stored after the user message, behind the messages of an earlier turn.
C35_Witness ==
    /\ tool_obs.op = "turn"
    /\ tool_obs.response = "EMAIL_PREPARED_FOR_REVIEW"
    /\ Len(messages) >= 4
    /\ messages[Len(messages) - 1] = "user"
    /\ messages[Len(messages)] = "email_prepared"
    /\ messages[1] = "user"

============================================================================
